---- MODULE Spec2Model ----
(***************************************************************************)
(* A model of the hotkey registration multiplexer (HotkeyManager,          *)
(* src/unnamed/part_005) and of the pure helpers it calls.                 *)
(*                                                                         *)
(* A hotkey descriptor 'Mod+S' is modelled by the sequence of its          *)
(* '+'-separated tokens, <<"Mod", "S">>.  A Map is a function whose        *)
(* DOMAIN is the set of its keys; a Set of ids is the sequence of its      *)
(* members in insertion order (the order a JavaScript Set iterates in).    *)
(***************************************************************************)
EXTENDS Integers, Sequences, FiniteSets, TLC

\* Bounds of the model.
MaxIds == 2          \* register calls per process (registrationIdCounter)

VARIABLES
    hasDocument,             \* typeof document !== 'undefined'
    platform,                \* HotkeyManager.platform, detectPlatform()
    instance,                \* HotkeyManager.instance: "null" or the "live" instance
    registrationIdCounter,   \* module-level counter behind generateId
    registrations,           \* Map<string, HotkeyRegistration>
    targetListeners,         \* Map<target, {keydown, keyup}>: the set of its keys
    targetRegistrations,     \* Map<target, Set<string>>
    domListeners,            \* per DOM target, the listeners attached to it
    handles,                 \* per id issued: is its closure bound to the live instance
    sequenceIdCounter,       \* SequenceManager: ids issued
    sequenceRegistrations,   \* SequenceManager: id -> sequence registration
    sequenceOrphans,         \* per unregistered sequence id, the timeouts it left scheduled
    recorder,                \* the HotkeyRecorder: its store, its handler, its listeners
    lastOp                   \* what the last call or dispatch pass did

vars == <<hasDocument, platform, instance, registrationIdCounter,
          registrations, targetListeners, targetRegistrations, domListeners,
          handles, sequenceIdCounter, sequenceRegistrations, sequenceOrphans, recorder,
          lastOp>>

\* The state of the sequence engine, a singleton of its own.
sequenceVars == <<sequenceIdCounter, sequenceRegistrations, sequenceOrphans>>

\* The state of the hotkey manager and of its environment.
managerVars == <<hasDocument, platform, instance, registrationIdCounter,
                 registrations, targetListeners, targetRegistrations, domListeners,
                 handles>>

-----------------------------------------------------------------------------
(* The DOM the manager observes: window > document > html > body > div, and   *)
(* under div an input, a textarea, a select and a contenteditable element.   *)

DomTargets == {"document", "window", "div", "input"}

Nodes == {"document", "html", "body", "div", "input", "textarea", "select", "editable"}

Parent == [n \in Nodes \ {"document"} |->
             CASE n = "html" -> "document"
               [] n = "body" -> "html"
               [] n = "div" -> "body"
               [] n \in {"input", "textarea", "select", "editable"} -> "div"]

RECURSIVE Ancestors(_)
Ancestors(n) == IF n = "document" THEN {} ELSE {Parent[n]} \cup Ancestors(Parent[n])

\* Node.contains: a node contains itself and its descendants.
Contains(t, n) == n \in Nodes /\ (n = t \/ t \in Ancestors(n))

HTMLElements == Nodes \ {"document"}

NoListeners == [keydown |-> 0, keyup |-> 0]

-----------------------------------------------------------------------------
(* Parser and matcher (./parse, ./match)                                    *)

Platforms == {"mac", "windows"}

ParseError == [error |-> "ParseError"]

\* Modifier names, alias-folded; "mod" is resolved per platform.
ModifierOf(token, plat) ==
    CASE token \in {"Control", "Ctrl"} -> "ctrl"
      [] token = "Shift" -> "shift"
      [] token \in {"Alt", "Option"} -> "alt"
      [] token \in {"Meta", "Cmd", "Command", "Windows"} -> "meta"
      [] token = "Mod" -> IF plat = "mac" THEN "meta" ELSE "ctrl"
      [] OTHER -> "none"

\* Key names, case- and alias-folded.
normalizeKey(key) ==
    CASE key \in {"s", "S"} -> "S"
      [] key \in {"k", "K"} -> "K"
      [] key \in {"z", "Z"} -> "Z"
      [] key \in {"Esc", "Escape"} -> "Escape"
      [] OTHER -> key

IsBlank(token) == token \in {"", " "}

parseHotkey(hotkey, plat) ==
    IF Len(hotkey) = 0 \/ (Len(hotkey) = 1 /\ IsBlank(hotkey[1])) THEN ParseError
    ELSE IF IsBlank(hotkey[Len(hotkey)]) THEN ParseError
    ELSE IF \E i \in 1..(Len(hotkey) - 1) : ModifierOf(hotkey[i], plat) = "none"
         THEN ParseError
    ELSE LET mods == {ModifierOf(hotkey[i], plat) : i \in 1..(Len(hotkey) - 1)}
         IN  [key |-> normalizeKey(hotkey[Len(hotkey)]),
              ctrl |-> "ctrl" \in mods,
              shift |-> "shift" \in mods,
              alt |-> "alt" \in mods,
              meta |-> "meta" \in mods]

\* A matcher that lets modifiers the hotkey does not ask for be held.
matchesWithExtraModifiers(event, parsed, plat) ==
    /\ normalizeKey(event.key) = parsed.key
    /\ parsed.ctrl => event.ctrlKey
    /\ parsed.shift => event.shiftKey
    /\ parsed.alt => event.altKey
    /\ parsed.meta => event.metaKey

matchesKeyboardEvent(event, parsed, plat) ==
    /\ normalizeKey(event.key) = parsed.key
    /\ event.ctrlKey = parsed.ctrl
    /\ event.shiftKey = parsed.shift
    /\ event.altKey = parsed.alt
    /\ event.metaKey = parsed.meta

-----------------------------------------------------------------------------
(* HotkeyManager: helpers on the manager's tables.  M is the record of the  *)
(* four tables; each helper returns the tables as the method leaves them.   *)

Mgr == [registrations |-> registrations,
        targetListeners |-> targetListeners,
        targetRegistrations |-> targetRegistrations,
        domListeners |-> domListeners]

EmptyMgr(dom) == [registrations |-> << >>,
                  targetListeners |-> {},
                  targetRegistrations |-> << >>,
                  domListeners |-> dom]

MapDelete(map, key) == [k \in (DOMAIN map) \ {key} |-> map[k]]

MapSet(map, key, value) == [k \in (DOMAIN map) \cup {key} |->
                              IF k = key THEN value ELSE map[k]]

SetDelete(seq, x) == SelectSeq(seq, LAMBDA y : y # x)

SetAdd(seq, x) == IF \E i \in 1..Len(seq) : seq[i] = x THEN seq ELSE Append(seq, x)

Members(seq) == {seq[i] : i \in 1..Len(seq)}

\* target.addEventListener / removeEventListener for the keydown and keyup pair.
AddDomListeners(dom, target) ==
    [dom EXCEPT ![target] = [keydown |-> @.keydown + 1, keyup |-> @.keyup + 1]]

RemoveDomListeners(dom, target) ==
    [dom EXCEPT ![target] = [keydown |-> IF @.keydown > 0 THEN @.keydown - 1 ELSE 0,
                             keyup |-> IF @.keyup > 0 THEN @.keyup - 1 ELSE 0]]

\* Mutant: attaches a listener pair without looking for a document.
ensureListenersWithoutDocument(M, target) ==
    IF target \in M.targetListeners THEN M
    ELSE [M EXCEPT !.domListeners = IF target \in DOMAIN @ THEN AddDomListeners(@, target) ELSE @,
                   !.targetListeners = @ \cup {target}]

\* Mutant: attaches a listener pair without looking for an existing one.
ensureListenersAlwaysAttach(M, target) ==
    IF ~hasDocument THEN M
    ELSE [M EXCEPT !.domListeners = AddDomListeners(@, target),
                   !.targetListeners = @ \cup {target}]

ensureListenersForTarget(M, target) ==
    IF ~hasDocument THEN M
    ELSE IF target \in M.targetListeners THEN M
    ELSE [M EXCEPT !.domListeners = AddDomListeners(@, target),
                   !.targetListeners = @ \cup {target}]

removeListenersForTarget(M, target) ==
    IF ~hasDocument THEN M
    ELSE IF target \notin M.targetListeners THEN M
    ELSE [M EXCEPT !.domListeners = RemoveDomListeners(@, target),
                   !.targetListeners = @ \ {target},
                   !.targetRegistrations = MapDelete(@, target)]

\* Mutant: the call of the handle is dropped.
unregisterIgnored(M, id) == M

\* Mutant: the registration is deleted but its id stays in its scope's set.
unregisterKeepsScopeEntry(M, id) ==
    [M EXCEPT !.registrations = MapDelete(@, id)]

unregister(M, id) ==
    IF id \notin DOMAIN M.registrations THEN M
    ELSE LET target == M.registrations[id].target
             M1 == [M EXCEPT !.registrations = MapDelete(@, id)]
         IN  IF target \in DOMAIN M1.targetRegistrations
             THEN LET M2 == [M1 EXCEPT !.targetRegistrations[target] = SetDelete(@, id)]
                  IN  IF Len(M2.targetRegistrations[target]) = 0
                      THEN removeListenersForTarget(M2, target)
                      ELSE M2
             ELSE M1

RECURSIVE RemoveAllListeners(_, _)
RemoveAllListeners(M, targets) ==
    IF targets = {} THEN M
    ELSE LET t == CHOOSE x \in targets : TRUE
         IN  RemoveAllListeners(removeListenersForTarget(M, t), targets \ {t})

\* Mutant: the tables are cleared but the attached listeners are left.
destroyTablesOnly(M) ==
    [M EXCEPT !.registrations = << >>,
              !.targetListeners = {},
              !.targetRegistrations = << >>]

destroy(M) ==
    LET M1 == RemoveAllListeners(M, M.targetListeners)
    IN  [M1 EXCEPT !.registrations = << >>,
                   !.targetListeners = {},
                   !.targetRegistrations = << >>]

getRegistrationCount(M) == Cardinality(DOMAIN M.registrations)

\* The option defaults of register, under the caller's options, under platform.
DefaultOptions == [preventDefault |-> FALSE,
                   stopPropagation |-> FALSE,
                   eventType |-> "keydown",
                   requireReset |-> FALSE,
                   enabled |-> TRUE,
                   ignoreInputs |-> TRUE]

MergeOptions(options, plat) ==
    [k \in (DOMAIN DefaultOptions) \cup (DOMAIN options) \cup {"platform"} |->
        IF k = "platform" THEN plat
        ELSE IF k \in DOMAIN options THEN options[k]
        ELSE DefaultOptions[k]]

\* The object a register call without a document binds to: a fresh {} per call.
AnonTargets == <<"anon1", "anon2", "anon3", "anon4", "anon5", "anon6">>

ResolveTarget(options, id) ==
    IF "target" \in DOMAIN options THEN options.target
    ELSE IF hasDocument THEN "document"
    ELSE AnonTargets[id]

\* Mutant: the parse error is swallowed and register goes on.
ParseNeverThrows(parsed) == FALSE

\* parseHotkey throws out of register: nothing after it runs.
ParseThrows(parsed) == parsed = ParseError

\* register, from the parsed hotkey on.
register(M, id, hotkey, parsed, callback, options, plat) ==
    LET target == ResolveTarget(options, id)
        registration == [id |-> id,
                         hotkey |-> hotkey,
                         parsedHotkey |-> parsed,
                         callback |-> callback,
                         options |-> MergeOptions(options, plat),
                         hasFired |-> FALSE,
                         target |-> target]
        M1 == [M EXCEPT !.registrations = MapSet(@, id, registration)]
        M2 == IF target \in DOMAIN M1.targetRegistrations
              THEN M1
              ELSE [M1 EXCEPT !.targetRegistrations = MapSet(@, target, << >>)]
        M3 == [M2 EXCEPT !.targetRegistrations[target] = SetAdd(@, id)]
    IN  ensureListenersForTarget(M3, target)

-----------------------------------------------------------------------------
(* Event routing                                                            *)

isEventForTarget(event, target) ==
    IF target \in {"document", "window"} THEN event.currentTarget = target
    ELSE IF target \in HTMLElements
         THEN event.currentTarget = target \/ Contains(target, event.target)
    ELSE FALSE

\* Mutant: only HTMLInputElement counts as an input-like element.
isHtmlInputOnly(element) == element = "input"

\* HTMLInputElement, HTMLTextAreaElement, HTMLSelectElement, contentEditable.
isInputElement(element) == element \in {"input", "textarea", "select", "editable"}

Lower(key) ==
    CASE key \in {"s", "S"} -> "s"
      [] key \in {"k", "K"} -> "k"
      [] key \in {"z", "Z"} -> "z"
      [] key = "Control" -> "control"
      [] key = "Shift" -> "shift"
      [] key = "Alt" -> "alt"
      [] key = "Meta" -> "meta"
      [] key = "Escape" -> "escape"
      [] OTHER -> key

\* Mutant: any released key resets the latch.
shouldResetOnAnyRelease(registration, event) == TRUE

shouldResetRegistration(registration, event) ==
    LET parsed == registration.parsedHotkey
        releasedKey == Lower(event.key)
    IN  \/ releasedKey = Lower(parsed.key)
        \/ parsed.ctrl /\ releasedKey \in {"control", "ctrl"}
        \/ parsed.shift /\ releasedKey = "shift"
        \/ parsed.alt /\ releasedKey \in {"alt", "option"}
        \/ parsed.meta /\ releasedKey \in {"meta", "command"}

\* The accumulator of a dispatch pass: the tables, the callbacks invoked in
\* order, and whether preventDefault / stopPropagation was called on the event.
executeHotkeyCallback(acc, registration, event) ==
    [acc EXCEPT !.prevented = @ \/ registration.options.preventDefault,
                !.stopped = @ \/ registration.options.stopPropagation,
                !.fired = Append(@, [id |-> registration.id,
                                     callback |-> registration.callback])]

Skip(registration) == [exec |-> FALSE, hasFired |-> registration.hasFired]

\* Mutant: a registration is executed on a matching event of either phase.
VisitRegistrationEitherPhase(registration, event, target, eventType) ==
    IF ~isEventForTarget(event, target) \/ ~registration.options.enabled
    THEN Skip(registration)
    ELSE [exec |-> matchesKeyboardEvent(event, registration.parsedHotkey,
                                        registration.options.platform),
          hasFired |-> registration.hasFired]

\* The body of processTargetEvent's loop for one registration: whether its
\* callback is executed and the value of hasFired it is left with.
VisitRegistration(registration, event, target, eventType) ==
    LET options == registration.options
        matched == matchesKeyboardEvent(event, registration.parsedHotkey, options.platform)
    IN  IF ~isEventForTarget(event, target) THEN Skip(registration)
        ELSE IF ~options.enabled THEN Skip(registration)
        ELSE IF /\ options.ignoreInputs # FALSE
                /\ isInputElement(event.target)
                /\ event.target # registration.target
             THEN Skip(registration)
        ELSE IF eventType = "keydown"
             THEN IF options.eventType # "keydown" THEN Skip(registration)
                  ELSE IF options.requireReset /\ registration.hasFired
                       THEN Skip(registration)
                  ELSE IF matched
                       THEN [exec |-> TRUE,
                             hasFired |-> IF options.requireReset THEN TRUE
                                          ELSE registration.hasFired]
                  ELSE Skip(registration)
        ELSE [exec |-> options.eventType = "keyup" /\ matched,
              hasFired |-> IF /\ options.requireReset
                              /\ registration.hasFired
                              /\ shouldResetRegistration(registration, event)
                           THEN FALSE
                           ELSE registration.hasFired]

RECURSIVE ProcessLoop(_, _, _, _, _, _)
ProcessLoop(acc, ids, i, event, target, eventType) ==
    IF i > Len(ids) THEN acc
    ELSE IF ids[i] \notin DOMAIN acc.M.registrations
         THEN ProcessLoop(acc, ids, i + 1, event, target, eventType)
    ELSE LET registration == acc.M.registrations[ids[i]]
             v == VisitRegistration(registration, event, target, eventType)
             acc1 == IF v.exec THEN executeHotkeyCallback(acc, registration, event)
                     ELSE acc
             acc2 == IF ids[i] \in DOMAIN acc1.M.registrations
                     THEN [acc1 EXCEPT !.M.registrations[ids[i]].hasFired = v.hasFired]
                     ELSE acc1
         IN  ProcessLoop(acc2, ids, i + 1, event, target, eventType)

Reverse(seq) == [i \in 1..Len(seq) |-> seq[Len(seq) + 1 - i]]

\* Mutant: the pass visits the scope's registrations last registered first.
processTargetEventBackwards(M, event, target, eventType) ==
    LET acc == [M |-> M, fired |-> << >>, prevented |-> FALSE, stopped |-> FALSE]
    IN  IF target \notin DOMAIN M.targetRegistrations THEN acc
        ELSE ProcessLoop(acc, Reverse(M.targetRegistrations[target]), 1, event, target,
                         eventType)

processTargetEvent(M, event, target, eventType) ==
    LET acc == [M |-> M, fired |-> << >>, prevented |-> FALSE, stopped |-> FALSE]
    IN  IF target \notin DOMAIN M.targetRegistrations THEN acc
        ELSE ProcessLoop(acc, M.targetRegistrations[target], 1, event, target, eventType)

-----------------------------------------------------------------------------
(* The state after module load and the operations                           *)

\* A hotkey that is null, and the hotkey '' that the recorder reports a
\* cleared shortcut with.
NullHotkey == << >>
EmptyHotkey == <<"">>

\* Before 'new HotkeyRecorder(options)'.  keydownHandler is 0 for null and
\* otherwise the number of the handler closure that start() made; attached is
\* the set of handler closures that are capture listeners of the document.
NoRecorder ==
    [constructed |-> FALSE,
     isRecording |-> FALSE,
     recordedHotkey |-> NullHotkey,
     keydownHandler |-> 0,
     handlers |-> 0,
     attached |-> {},
     platform |-> "mac",
     options |-> [onRecord |-> "none", onCancel |-> "absent", onClear |-> "absent"]]

InitWith(doc, plat) ==
    /\ hasDocument = doc
    /\ platform = plat
    /\ instance = "null"
    /\ registrationIdCounter = 0
    /\ registrations = << >>
    /\ targetListeners = {}
    /\ targetRegistrations = << >>
    /\ domListeners = [t \in DomTargets |-> NoListeners]
    /\ handles = << >>
    /\ sequenceIdCounter = 0
    /\ sequenceRegistrations = << >>
    /\ sequenceOrphans = << >>
    /\ recorder = NoRecorder
    /\ lastOp = [op |-> "load"]

Init == InitWith(TRUE, "mac")

SetMgr(M) ==
    /\ registrations' = M.registrations
    /\ targetListeners' = M.targetListeners
    /\ targetRegistrations' = M.targetRegistrations
    /\ domListeners' = M.domListeners

\* HotkeyManager.getInstance() while no instance exists: construct one.
GetInstance ==
    /\ instance = "null"
    /\ instance' = "live"
    /\ SetMgr(EmptyMgr(domListeners))
    /\ lastOp' = [op |-> "getInstance"]
    /\ UNCHANGED <<hasDocument, platform, registrationIdCounter, handles>>
    /\ UNCHANGED <<sequenceVars, recorder>>

\* Mutant: the reset starts the ids of the next instance at 1 again.
ResetInstanceRestartsIds ==
    /\ instance = "live"
    /\ SetMgr(destroy(Mgr))
    /\ instance' = "null"
    /\ handles' = [id \in DOMAIN handles |-> FALSE]
    /\ registrationIdCounter' = 0
    /\ lastOp' = [op |-> "resetInstance"]
    /\ UNCHANGED <<hasDocument, platform>>
    /\ UNCHANGED <<sequenceVars, recorder>>

\* HotkeyManager.resetInstance() while an instance exists.
ResetInstance ==
    /\ instance = "live"
    /\ SetMgr(destroy(Mgr))
    /\ instance' = "null"
    /\ handles' = [id \in DOMAIN handles |-> FALSE]
    /\ lastOp' = [op |-> "resetInstance"]
    /\ UNCHANGED <<hasDocument, platform, registrationIdCounter>>
    /\ UNCHANGED <<sequenceVars, recorder>>

\* manager.destroy() on the live instance.
Destroy ==
    /\ instance = "live"
    /\ SetMgr(destroy(Mgr))
    /\ lastOp' = [op |-> "destroy"]
    /\ UNCHANGED <<hasDocument, platform, instance, registrationIdCounter, handles>>
    /\ UNCHANGED <<sequenceVars, recorder>>

\* manager.register(hotkey, callback, options) on the live instance.
Register(hotkey, callback, options) ==
    /\ instance = "live"
    /\ registrationIdCounter < MaxIds
    /\ LET id == registrationIdCounter + 1
           plat == IF "platform" \in DOMAIN options THEN options.platform ELSE platform
           parsed == parseHotkey(hotkey, plat)
       IN  /\ registrationIdCounter' = id
           /\ IF ParseThrows(parsed)
              THEN /\ UNCHANGED <<registrations, targetListeners, targetRegistrations,
                                  domListeners, handles>>
                   /\ lastOp' = [op |-> "register", id |-> id, hotkey |-> hotkey,
                                 options |-> options, threw |-> TRUE, warnings |-> 0]
              ELSE /\ SetMgr(register(Mgr, id, hotkey, parsed, callback, options, plat))
                   /\ handles' = MapSet(handles, id, TRUE)
                   /\ lastOp' = [op |-> "register", id |-> id, hotkey |-> hotkey,
                                 options |-> options, threw |-> FALSE, warnings |-> 0]
    /\ UNCHANGED <<hasDocument, platform, instance>>
    /\ UNCHANGED <<sequenceVars, recorder>>

\* Calling the function register returned.  It is bound to the instance that
\* issued it; a destroyed instance's tables are empty.
HandleUnregister(id) ==
    /\ id \in DOMAIN handles
    /\ IF handles[id]
       THEN SetMgr(unregister(Mgr, id))
       ELSE UNCHANGED <<registrations, targetListeners, targetRegistrations, domListeners>>
    /\ lastOp' = [op |-> "unregister", id |-> id, threw |-> FALSE]
    /\ UNCHANGED <<hasDocument, platform, instance, registrationIdCounter, handles>>
    /\ UNCHANGED <<sequenceVars, recorder>>

\* handle.setOptions(partial): the function register returned has no such
\* method, so the call is a TypeError.
HandleSetOptions(id, partial) ==
    /\ id \in DOMAIN handles
    /\ lastOp' = [op |-> "setOptions", id |-> id, options |-> partial, threw |-> TRUE]
    /\ UNCHANGED <<hasDocument, platform, instance, registrationIdCounter,
                   registrations, targetListeners, targetRegistrations, domListeners,
                   handles>>
    /\ UNCHANGED <<sequenceVars, recorder>>

\* handle.callback = callback: a property set on the function register
\* returned, which the manager never reads.
HandleSetCallback(id, callback) ==
    /\ id \in DOMAIN handles
    /\ lastOp' = [op |-> "setCallback", id |-> id, callback |-> callback, threw |-> FALSE]
    /\ UNCHANGED <<hasDocument, platform, instance, registrationIdCounter,
                   registrations, targetListeners, targetRegistrations, domListeners,
                   handles>>
    /\ UNCHANGED <<sequenceVars, recorder>>

\* The browser invokes the listener the manager attached to target.
Dispatch(target, event) ==
    /\ domListeners[target][event.type] > 0
    /\ event.currentTarget = target
    /\ target \in Nodes => Contains(target, event.target)
    /\ LET acc == processTargetEvent(Mgr, event, target, event.type)
       IN  /\ SetMgr(acc.M)
           /\ lastOp' = [op |-> "dispatch", target |-> target, event |-> event,
                         fired |-> acc.fired, prevented |-> acc.prevented,
                         stopped |-> acc.stopped]
    /\ UNCHANGED <<hasDocument, platform, instance, registrationIdCounter, handles>>
    /\ UNCHANGED <<sequenceVars, recorder>>

\* The listener attached to the document or the window is invoked by a
\* browser that reports the document's root element as event.currentTarget.
DispatchHardened(target, event) ==
    /\ target \in {"document", "window"}
    /\ domListeners[target][event.type] > 0
    /\ event.currentTarget = "html"
    /\ LET acc == processTargetEvent(Mgr, event, target, event.type)
       IN  /\ SetMgr(acc.M)
           /\ lastOp' = [op |-> "dispatch", target |-> target, event |-> event,
                         fired |-> acc.fired, prevented |-> acc.prevented,
                         stopped |-> acc.stopped]
    /\ UNCHANGED <<hasDocument, platform, instance, registrationIdCounter, handles>>
    /\ UNCHANGED <<sequenceVars, recorder>>

-----------------------------------------------------------------------------
(* The inputs the operations are driven with                                *)

ModS == <<"Mod", "S">>
MetaS == <<"Meta", "S">>
KeyK == <<"K">>

ValidHotkeys == {ModS, MetaS, KeyK}

\* '', '   ', 'Foo+S', 'Control+'
InvalidHotkeys == {<<"">>, <<" ">>, <<"Foo", "S">>, <<"Control", "">>}

Callbacks == {"cbA", "cbB"}

NoOptions == << >>

OptionSets == {NoOptions,
               [conflictBehavior |-> "error"],
               [conflictBehavior |-> "replace"],
               [conflictBehavior |-> "allow"],
               [requireReset |-> TRUE],
               [target |-> "div"],
               [target |-> "div", conflictBehavior |-> "error"]}

PartialOptions == {[enabled |-> FALSE], [enabled |-> TRUE]}

KeyEvent(type, key, ctrl, meta, origin, current) ==
    [type |-> type, key |-> key, ctrlKey |-> ctrl, shiftKey |-> FALSE, altKey |-> FALSE,
     metaKey |-> meta, target |-> origin, currentTarget |-> current]

Events(current) ==
    {KeyEvent(type, k[1], k[2], k[3], origin, current) :
        type \in {"keydown", "keyup"},
        k \in {<<"s", FALSE, TRUE>>, <<"k", FALSE, FALSE>>,
               <<"Meta", FALSE, FALSE>>, <<"Control", FALSE, FALSE>>},
        origin \in {"body"}}

Next ==
    \/ GetInstance
    \/ ResetInstance
    \/ Destroy
    \/ \E h \in ValidHotkeys, o \in OptionSets : Register(h, "cbA", o)
    \/ \E h \in InvalidHotkeys : Register(h, "cbA", NoOptions)
    \/ \E id \in 1..MaxIds : HandleUnregister(id)
    \/ \E id \in 1..MaxIds, o \in PartialOptions : HandleSetOptions(id, o)
    \/ \E id \in 1..MaxIds : HandleSetCallback(id, "cbB")
    \/ \E t \in DomTargets : \E e \in Events(t) : Dispatch(t, e)

Spec == Init /\ [][Next]_vars

-----------------------------------------------------------------------------
(* Event routing on its own: one registration at a time, events from every  *)
(* kind of origin, of both phases, through both kinds of browser.           *)

MaxRoutingIds == 1   \* register calls in the routing specification

EscapeKey == <<"Escape">>
ShiftS == <<"Shift", "S">>

RoutingRegistrations ==
    {<<KeyK, NoOptions>>,
     <<KeyK, [target |-> "div"]>>,
     <<KeyK, [target |-> "input"]>>,
     <<KeyK, [ignoreInputs |-> FALSE]>>,
     <<ModS, NoOptions>>,
     <<ModS, [ignoreInputs |-> TRUE]>>,
     <<EscapeKey, NoOptions>>,
     <<EscapeKey, [target |-> "window"]>>,
     <<ShiftS, NoOptions>>,
     <<KeyK, [eventType |-> "keyup"]>>,
     <<KeyK, [eventType |-> "keyup", requireReset |-> TRUE]>>,
     <<KeyK, [preventDefault |-> FALSE, stopPropagation |-> FALSE]>>,
     <<KeyK, [requireReset |-> TRUE, preventDefault |-> TRUE, stopPropagation |-> TRUE]>>}

RoutingEvents(current) ==
    {[type |-> type, key |-> k[1], ctrlKey |-> FALSE, shiftKey |-> k[2],
      altKey |-> FALSE, metaKey |-> k[3], target |-> origin, currentTarget |-> current] :
        type \in {"keydown", "keyup"},
        k \in {<<"k", FALSE, FALSE>>, <<"s", FALSE, TRUE>>,
               <<"S", TRUE, FALSE>>, <<"Escape", FALSE, FALSE>>},
        origin \in {"body", "input", "textarea", "select", "editable"}}

NextRouting ==
    \/ GetInstance
    \/ \E r \in RoutingRegistrations :
          registrationIdCounter < MaxRoutingIds /\ Register(r[1], "cbA", r[2])
    \/ \E id \in 1..MaxRoutingIds : HandleUnregister(id)
    \/ \E t \in DomTargets : \E e \in RoutingEvents(t) : Dispatch(t, e)
    \/ \E t \in {"document", "window"} : \E e \in RoutingEvents("html") :
          DispatchHardened(t, e)

SpecRouting == Init /\ [][NextRouting]_vars

-----------------------------------------------------------------------------
(* Sequence engine (./sequence): a singleton of its own that hears every    *)
(* press.  Per registration: the ordered keys, progressIndex, a timer       *)
(* holding the time left on the timeout the registration keeps the token of *)
(* (0: none), and pending, the timeouts scheduled for it and neither fired  *)
(* nor cancelled, counted by the time each has left.                        *)

MaxSeqIds == 2         \* sequence register calls
SequenceTimeout == 2   \* the configured timeout, in units of time
MaxAdvance == 3        \* the longest single wait, in units of time

NoTimeouts(reg) == [t \in 1..reg.timeoutMillis |-> 0]

PendingCount(reg) ==
    LET RECURSIVE Sum(_)
        Sum(t) == IF t = 0 THEN 0 ELSE reg.pending[t] + Sum(t - 1)
    IN  Sum(reg.timeoutMillis)

\* clearTimeout on the token the registration keeps.
ClearTimeout(reg) ==
    IF reg.timer = 0 THEN reg
    ELSE [reg EXCEPT !.pending[reg.timer] = @ - 1, !.timer = 0]

\* setTimeout for the configured time, keeping its token.
ScheduleTimeout(reg) ==
    IF reg.timeoutMillis = 0 THEN reg
    ELSE [reg EXCEPT !.pending[reg.timeoutMillis] = @ + 1, !.timer = reg.timeoutMillis]

\* Mutant: a timeout is scheduled without cancelling the pending one.
StartTimeoutWithoutCancel(reg) == ScheduleTimeout(reg)

\* (Re)start the timeout: cancel the pending one, schedule the next.
StartTimeout(reg) == ScheduleTimeout(ClearTimeout(reg))

\* Mutant: completion resets progress but leaves the timeout pending.
CompleteKeepsTimeout(reg) == [reg EXCEPT !.progressIndex = 0]

\* The sequence is complete: progress back to 0, pending timeout cleared.
CompleteSequence(reg) == ClearTimeout([reg EXCEPT !.progressIndex = 0])

\* Mutant: the last key of the sequence completes it without a callback.
SequenceMatchSilent(reg) ==
    IF reg.progressIndex + 1 = Len(reg.orderedKeys)
    THEN [reg |-> CompleteSequence(reg), fire |-> FALSE]
    ELSE [reg |-> StartTimeout([reg EXCEPT !.progressIndex = @ + 1]), fire |-> FALSE]

\* The pressed key is the one expected at progressIndex.
SequenceMatch(reg) ==
    IF reg.progressIndex + 1 = Len(reg.orderedKeys)
    THEN [reg |-> CompleteSequence(reg), fire |-> TRUE]
    ELSE [reg |-> StartTimeout([reg EXCEPT !.progressIndex = @ + 1]), fire |-> FALSE]

\* Mutant: any unexpected key abandons the attempt.
SequenceMismatchAbandons(reg, k) == ClearTimeout([reg EXCEPT !.progressIndex = 0])

\* The pressed key is not the expected one: restart on the sequence's first
\* key, abandon on any other.
SequenceMismatch(reg, k) ==
    IF k = reg.orderedKeys[1]
    THEN StartTimeout([reg EXCEPT !.progressIndex = 1])
    ELSE ClearTimeout([reg EXCEPT !.progressIndex = 0])

\* One press as seen by one sequence registration.
SequenceStep(reg, key) ==
    LET k == normalizeKey(key)
    IN  IF k = reg.orderedKeys[reg.progressIndex + 1]
        THEN SequenceMatch(reg)
        ELSE [reg |-> SequenceMismatch(reg, k), fire |-> FALSE]

\* Mutant: a pending timeout never elapses.
TimeoutNeverElapses(reg, d) == reg

\* Time d passes for one registration: its pending timeout elapses, resetting
\* progress without a callback, or has that much less to run.
AdvanceRegistration(reg, d) ==
    LET T == reg.timeoutMillis
        due == \E t \in 1..T : t <= d /\ reg.pending[t] > 0
        left == [t \in 1..T |-> IF t + d <= T THEN reg.pending[t + d] ELSE 0]
        timer == IF reg.timer > d THEN reg.timer - d ELSE 0
    IN  [reg EXCEPT !.pending = left,
                    !.timer = timer,
                    !.progressIndex = IF due THEN 0 ELSE @]

\* The progress of every sequence registration, as a pass finds it.
ProgressNow == [id \in DOMAIN sequenceRegistrations |->
                  sequenceRegistrations[id].progressIndex]

\* Mutant: an empty sequence is registered like any other.
SequenceRegisterAnyLength(keys, options) ==
    /\ sequenceIdCounter < MaxSeqIds
    /\ sequenceIdCounter' = sequenceIdCounter + 1
    /\ sequenceRegistrations' =
           MapSet(sequenceRegistrations, sequenceIdCounter + 1,
                  [id |-> sequenceIdCounter + 1, orderedKeys |-> keys,
                   timeoutMillis |-> 0, progressIndex |-> 0, timer |-> 0,
                   pending |-> << >>])
    /\ lastOp' = [op |-> "sequenceRegister", keys |-> keys, threw |-> FALSE]
    /\ UNCHANGED <<sequenceOrphans, managerVars, recorder>>

\* sequenceManager.register(keys, callback, options)
SequenceRegister(keys, options) ==
    /\ sequenceIdCounter < MaxSeqIds
    /\ LET id == sequenceIdCounter + 1
       IN  IF Len(keys) = 0
           THEN /\ UNCHANGED <<sequenceVars, recorder>>
                /\ lastOp' = [op |-> "sequenceRegister", keys |-> keys, threw |-> TRUE]
           ELSE /\ sequenceIdCounter' = id
                /\ sequenceRegistrations' =
                       MapSet(sequenceRegistrations, id,
                              [id |-> id,
                               orderedKeys |-> [i \in 1..Len(keys) |-> normalizeKey(keys[i])],
                               timeoutMillis |-> IF "timeout" \in DOMAIN options
                                                 THEN options.timeout ELSE 0,
                               progressIndex |-> 0,
                               timer |-> 0,
                               pending |-> [t \in 1..(IF "timeout" \in DOMAIN options
                                                      THEN options.timeout ELSE 0)
                                              |-> 0]])
                /\ UNCHANGED sequenceOrphans
                /\ lastOp' = [op |-> "sequenceRegister", keys |-> keys, threw |-> FALSE]
    /\ UNCHANGED <<managerVars, recorder>>

\* Mutant: the registration is removed, its timeout left scheduled.
RemovalKeepsTimeout(reg) == reg.pending

\* The timeouts a registration leaves scheduled when it is removed: its
\* pending timeout is cleared with it.
RemovalLeaves(reg) == ClearTimeout(reg).pending

\* Time d passes for the timeouts an unregistered sequence left scheduled.
AdvanceOrphan(pending, d) ==
    [t \in DOMAIN pending |->
        IF t + d \in DOMAIN pending THEN pending[t + d] ELSE 0]

\* The timeouts that run within time d.
RunsWithin(pending, d) == \E t \in DOMAIN pending : t <= d /\ pending[t] > 0

\* The function sequenceManager.register returned.
SequenceUnregister(id) ==
    /\ id \in 1..sequenceIdCounter
    /\ sequenceRegistrations' = MapDelete(sequenceRegistrations, id)
    /\ sequenceOrphans' =
           IF id \in DOMAIN sequenceRegistrations
           THEN MapSet(sequenceOrphans, id, RemovalLeaves(sequenceRegistrations[id]))
           ELSE sequenceOrphans
    /\ lastOp' = [op |-> "sequenceUnregister", id |-> id, before |-> ProgressNow]
    /\ UNCHANGED <<sequenceIdCounter, managerVars, recorder>>

\* A press reaches the engine: every registration takes its step, and the
\* callbacks of the completed ones are invoked in registration order.
SequencePress(key) ==
    /\ sequenceRegistrations' =
           [id \in DOMAIN sequenceRegistrations |->
               SequenceStep(sequenceRegistrations[id], key).reg]
    /\ lastOp' = [op |-> "sequencePress", key |-> key, before |-> ProgressNow,
                  fired |-> SelectSeq([i \in 1..sequenceIdCounter |-> i],
                               LAMBDA i : /\ i \in DOMAIN sequenceRegistrations
                                          /\ SequenceStep(sequenceRegistrations[i],
                                                          key).fire)]
    /\ UNCHANGED <<sequenceIdCounter, sequenceOrphans, managerVars, recorder>>

\* Time d passes with no press.
SequenceAdvance(d) ==
    /\ sequenceRegistrations' =
           [id \in DOMAIN sequenceRegistrations |->
               AdvanceRegistration(sequenceRegistrations[id], d)]
    /\ sequenceOrphans' =
           [id \in DOMAIN sequenceOrphans |-> AdvanceOrphan(sequenceOrphans[id], d)]
    /\ lastOp' = [op |-> "sequenceAdvance", by |-> d, before |-> ProgressNow,
                  ran |-> {id \in DOMAIN sequenceOrphans :
                              RunsWithin(sequenceOrphans[id], d)}]
    /\ UNCHANGED <<sequenceIdCounter, managerVars, recorder>>

Sequences == {<<"K", "K">>, <<"K", "S">>, <<"K", "S", "Z">>}

SequenceOptions == {NoOptions, [timeout |-> SequenceTimeout]}

PressedKeys == {"k", "s", "z", "x"}

NextSequence ==
    \/ \E keys \in Sequences \cup {<< >>}, o \in SequenceOptions : SequenceRegister(keys, o)
    \/ \E id \in 1..MaxSeqIds : SequenceUnregister(id)
    \/ \E key \in PressedKeys : SequencePress(key)
    \/ \E d \in 1..MaxAdvance : SequenceAdvance(d)

SpecSequence == Init /\ [][NextSequence]_vars

-----------------------------------------------------------------------------
(* Typing: a run of presses that reach the sequence engine one after the    *)
(* other, each a wait shorter than the timeout after the one before.        *)

MaxTypingIds == 1   \* sequence register calls in the typing specification
MaxTyped == 4       \* the longest run of presses

\* What one registration makes of a run of presses: the registration after
\* it, its progress as each press found it, and the presses that invoked
\* its callback.
RECURSIVE TypeRun(_, _, _, _)
TypeRun(acc, keys, wait, n) ==
    IF n > Len(keys) THEN acc
    ELSE LET waited == IF wait = 0 THEN acc.reg ELSE AdvanceRegistration(acc.reg, wait)
             step == SequenceStep(waited, keys[n])
         IN  TypeRun([reg |-> step.reg,
                      progress |-> Append(acc.progress, waited.progressIndex),
                      firedAt |-> IF step.fire THEN acc.firedAt \cup {n} ELSE acc.firedAt],
                     keys, wait, n + 1)

\* The presses keys, each after the given wait, reach the engine.
SequenceType(keys, wait) ==
    /\ sequenceRegistrations # << >>
    /\ LET run == [id \in DOMAIN sequenceRegistrations |->
                      TypeRun([reg |-> sequenceRegistrations[id], progress |-> << >>,
                               firedAt |-> {}], keys, wait, 1)]
       IN  /\ sequenceRegistrations' = [id \in DOMAIN sequenceRegistrations |-> run[id].reg]
           /\ lastOp' = [op |-> "sequenceType", keys |-> keys, wait |-> wait,
                         progress |-> [id \in DOMAIN sequenceRegistrations |->
                                          run[id].progress],
                         firedAt |-> [id \in DOMAIN sequenceRegistrations |->
                                         run[id].firedAt]]
    /\ UNCHANGED <<sequenceIdCounter, sequenceOrphans, managerVars, recorder>>

TypedSequences == {<<"K", "K">>, <<"K", "S">>, <<"K", "K", "S">>}

\* Every run of one to MaxTyped presses of 'k' and 's'.
TypedRuns == UNION {[1..n -> {"k", "s"}] : n \in 1..MaxTyped}

NextTyping ==
    \/ \E keys \in TypedSequences :
          /\ sequenceIdCounter < MaxTypingIds
          /\ SequenceRegister(keys, [timeout |-> SequenceTimeout])
    \/ \E id \in 1..MaxTypingIds : SequenceUnregister(id)
    \/ \E keys \in TypedRuns, wait \in {0, SequenceTimeout - 1} : SequenceType(keys, wait)

SpecTyping == Init /\ [][NextTyping]_vars

-----------------------------------------------------------------------------
(* Strings.  Where the characters of a hotkey string matter it is written   *)
(* as the sequence of its '+' characters and of the maximal runs of other   *)
(* characters between them: 'Control+S' is <<"Control", "+", "S">>.         *)

\* parts.join('+')
joinParts(parts) ==
    LET RECURSIVE Join(_)
        Join(i) ==
            IF i > Len(parts) THEN << >>
            ELSE (IF i > 1 THEN <<"+">> ELSE << >>)
                 \o (IF parts[i] = "" THEN << >> ELSE <<parts[i]>>)
                 \o Join(i + 1)
    IN  Join(1)

\* str.split('+'): the pieces between the '+' characters, empty ones too.
splitHotkey(str) ==
    LET RECURSIVE Split(_, _, _)
        Split(i, piece, done) ==
            IF i > Len(str) THEN Append(done, piece)
            ELSE IF str[i] = "+" THEN Split(i + 1, "", Append(done, piece))
            ELSE Split(i + 1, str[i], done)
    IN  Split(1, "", << >>)

\* The parser on a string: split on '+', then as parseHotkey.
parseHotkeyString(str, plat) == parseHotkey(splitHotkey(str), plat)

\* The parser on a structured descriptor { key, ctrl?, shift?, alt?, meta?, mod? }:
\* the flags map directly, mod resolves like the modifier 'Mod'.
parseRawHotkey(raw, plat) ==
    IF IsBlank(raw.key) THEN ParseError
    ELSE [key |-> normalizeKey(raw.key),
          ctrl |-> raw.ctrl \/ (raw.mod /\ ModifierOf("Mod", plat) = "ctrl"),
          shift |-> raw.shift,
          alt |-> raw.alt,
          meta |-> raw.meta \/ (raw.mod /\ ModifierOf("Mod", plat) = "meta")]

\* formatParsedHotkey of the React hook: Control, Alt, Shift, Meta, then
\* the key, joined with '+'.
formatParsedHotkey(parsed) ==
    joinParts((IF parsed.ctrl THEN <<"Control">> ELSE << >>)
              \o (IF parsed.alt THEN <<"Alt">> ELSE << >>)
              \o (IF parsed.shift THEN <<"Shift">> ELSE << >>)
              \o (IF parsed.meta THEN <<"Meta">> ELSE << >>)
              \o <<parsed.key>>)

-----------------------------------------------------------------------------
(* Validator (./validate): findings as data, and its two wrappers.          *)

Letters == {"A", "C", "K", "S", "Z"}
Digits == {"2"}
KnownKeys == Letters \cup Digits \cup {"Escape", "Enter", "F1", "ArrowUp"}

ValidationErrors(hotkey) ==
    IF Len(hotkey) = 0 \/ (Len(hotkey) = 1 /\ IsBlank(hotkey[1]))
    THEN <<"Hotkey cannot be empty">>
    ELSE IF \E i \in 1..(Len(hotkey) - 1) : ModifierOf(hotkey[i], "mac") = "none"
    THEN <<"Unknown modifier">>
    ELSE IF ParseThrows(parseHotkey(hotkey, "mac")) THEN <<"Invalid hotkey">>
    ELSE << >>

ValidationWarnings(hotkey) ==
    IF ValidationErrors(hotkey) # << >> THEN << >>
    ELSE LET parsed == parseHotkey(hotkey, "mac")
         IN  (IF parsed.alt /\ ~parsed.shift /\ parsed.key \in Letters
              THEN <<"Alt+letter on macOS">> ELSE << >>)
             \o (IF parsed.shift /\ ~parsed.alt /\ parsed.key \in Digits
                 THEN <<"keyboard layouts">> ELSE << >>)
             \o (IF parsed.alt /\ parsed.shift /\ parsed.key \in Letters
                 THEN <<"Alt+Shift+letter">> ELSE << >>)
             \o (IF parsed.key \notin KnownKeys THEN <<"Unknown key">> ELSE << >>)

\* A validator that holds a warning against the hotkey.
validateStrictly(hotkey) ==
    [valid |-> ValidationErrors(hotkey) = << >> /\ ValidationWarnings(hotkey) = << >>,
     errors |-> ValidationErrors(hotkey),
     warnings |-> ValidationWarnings(hotkey)]

validateHotkey(hotkey) ==
    [valid |-> ValidationErrors(hotkey) = << >>,
     errors |-> ValidationErrors(hotkey),
     warnings |-> ValidationWarnings(hotkey)]

\* assertValidHotkey: throws on an invalid result.
assertValidHotkey(hotkey) == [threw |-> ~validateHotkey(hotkey).valid]

\* checkHotkey: logs the findings, returns the valid flag.
checkHotkey(hotkey) ==
    LET result == validateHotkey(hotkey)
    IN  [threw |-> FALSE,
         result |-> result.valid,
         warned |-> result.warnings # << >>,
         errored |-> result.errors # << >>]

-----------------------------------------------------------------------------
(* The matcher behind one registration on the document, and the parser and *)
(* the validator on their own.                                              *)

\* matchesKeyboardEvent(event, parseHotkey(hotkey, plat), plat)
Matches(event, hotkey, plat) ==
    /\ ~ParseThrows(parseHotkey(hotkey, plat))
    /\ lastOp' = [op |-> "matches", event |-> event, platform |-> plat,
                  parsed |-> parseHotkey(hotkey, plat),
                  result |-> matchesKeyboardEvent(event, parseHotkey(hotkey, plat), plat)]
    /\ UNCHANGED <<managerVars, sequenceVars, recorder>>

\* A parsed value, its canonical string, and that string parsed again.
Reparse(d, parsed, plat) ==
    /\ ~ParseThrows(parsed)
    /\ lastOp' = [op |-> "formatParse", descriptor |-> d, platform |-> plat,
                  parsed |-> parsed,
                  formatted |-> formatParsedHotkey(parsed),
                  reparsed |-> parseHotkeyString(formatParsedHotkey(parsed), plat)]
    /\ UNCHANGED <<managerVars, sequenceVars, recorder>>

\* parse(d, plat) of a string descriptor, formatted and parsed again.
FormatParse(hotkey, plat) == Reparse(hotkey, parseHotkey(hotkey, plat), plat)

\* parse(d, plat) of a structured descriptor, formatted and parsed again.
FormatParseRaw(raw, plat) == Reparse(raw, parseRawHotkey(raw, plat), plat)

ValidateHotkey(hotkey) ==
    /\ lastOp' = [op |-> "validateHotkey", hotkey |-> hotkey, threw |-> FALSE,
                  result |-> validateHotkey(hotkey)]
    /\ UNCHANGED <<managerVars, sequenceVars, recorder>>

AssertValidHotkey(hotkey) ==
    /\ lastOp' = [op |-> "assertValidHotkey", hotkey |-> hotkey,
                  threw |-> assertValidHotkey(hotkey).threw]
    /\ UNCHANGED <<managerVars, sequenceVars, recorder>>

CheckHotkey(hotkey) ==
    /\ lastOp' = [op |-> "checkHotkey", hotkey |-> hotkey,
                  threw |-> checkHotkey(hotkey).threw,
                  result |-> checkHotkey(hotkey).result,
                  warned |-> checkHotkey(hotkey).warned,
                  errored |-> checkHotkey(hotkey).errored]
    /\ UNCHANGED <<managerVars, sequenceVars, recorder>>

ControlAltS == <<"Control", "Alt", "S">>

MatcherHotkeys == {ModS, KeyK, ShiftS, ControlAltS}

\* Presses of 's' and 'k' under each of the sixteen modifier combinations.
MatcherEvents ==
    {[type |-> "keydown", key |-> k, ctrlKey |-> c, shiftKey |-> s, altKey |-> a,
      metaKey |-> m, target |-> "body", currentTarget |-> "document"] :
        k \in {"s", "k"}, c \in BOOLEAN, s \in BOOLEAN, a \in BOOLEAN, m \in BOOLEAN}

RawHotkey(key, ctrl, shift, mod) ==
    [key |-> key, ctrl |-> ctrl, shift |-> shift, alt |-> FALSE, meta |-> FALSE,
     mod |-> mod]

\* Every string of at most two modifier names, aliases among them, and a
\* key: 'S', 'Mod+s', 'Cmd+Esc', 'Control+Option+S', 'Shift+Shift+s', ...
ModifierTokens == {"Control", "Ctrl", "Shift", "Alt", "Option", "Meta", "Cmd", "Mod"}

StringDescriptors ==
    {<<key>> : key \in {"S", "s", "Esc"}}
    \cup {<<m, key>> : m \in ModifierTokens, key \in {"S", "s", "Esc"}}
    \cup {<<m, n, key>> : m \in ModifierTokens, n \in ModifierTokens, key \in {"S", "s", "Esc"}}

\* { key: 'S', ctrl, shift }, { key: 'S', mod }, { key: 'k' }, { key: '+', ctrl },
\* { key: '+' }
RawDescriptors ==
    {RawHotkey("S", TRUE, TRUE, FALSE), RawHotkey("S", FALSE, FALSE, TRUE),
     RawHotkey("k", FALSE, FALSE, FALSE),
     RawHotkey("+", TRUE, FALSE, FALSE), RawHotkey("+", FALSE, FALSE, FALSE)}

\* 'Alt+C', 'Option+C', 'Shift+2', 'Alt+Shift+A', 'Control+SomeWeirdKey',
\* 'Control+A', 'Escape' and the malformed ones.
ValidatedHotkeys ==
    {ModS, <<"Alt", "C">>, <<"Option", "C">>, <<"Shift", "2">>, <<"Alt", "Shift", "A">>,
     <<"Control", "SomeWeirdKey">>, <<"Control", "A">>, EscapeKey}
    \cup InvalidHotkeys

NextMatcher ==
    \/ GetInstance
    \/ \E h \in MatcherHotkeys :
          registrationIdCounter < MaxRoutingIds /\ Register(h, "cbA", NoOptions)
    \/ \E id \in 1..MaxRoutingIds : HandleUnregister(id)
    \/ \E e \in MatcherEvents : Dispatch("document", e)
    \/ \E e \in MatcherEvents, p \in Platforms : Matches(e, ModS, p)

SpecMatcher == Init /\ [][NextMatcher]_vars

NextParser ==
    \/ \E d \in StringDescriptors, p \in Platforms : FormatParse(d, p)
    \/ \E d \in RawDescriptors, p \in Platforms : FormatParseRaw(d, p)
    \/ \E h \in ValidatedHotkeys : ValidateHotkey(h)
    \/ \E h \in ValidatedHotkeys : AssertValidHotkey(h)
    \/ \E h \in ValidatedHotkeys : CheckHotkey(h)

SpecParser == Init /\ [][NextParser]_vars

-----------------------------------------------------------------------------
(* The manager where there is no document (typeof document ===              *)
(* 'undefined'): no element can be given as a target, and no listener the   *)
(* browser could invoke exists unless the manager attaches one.             *)

InitNoDocument == InitWith(FALSE, "mac")

NoDocumentOptions == {NoOptions, [requireReset |-> TRUE], [eventType |-> "keyup"]}

NextNoDocument ==
    \/ GetInstance
    \/ ResetInstance
    \/ Destroy
    \/ \E h \in ValidHotkeys, o \in NoDocumentOptions : Register(h, "cbA", o)
    \/ \E h \in InvalidHotkeys : Register(h, "cbA", NoOptions)
    \/ \E id \in 1..MaxIds : HandleUnregister(id)

SpecNoDocument == InitNoDocument /\ [][NextNoDocument]_vars

-----------------------------------------------------------------------------
(* useHotkey, the React hook: its effect registers with the manager.  The   *)
(* target option is a React ref (ref, with its current value) or the value  *)
(* itself: undefined, null, an element, the document or the window.        *)

NoTarget == [ref |-> FALSE, current |-> "undefined"]
NullRef == [ref |-> TRUE, current |-> "null"]
DivRef == [ref |-> TRUE, current |-> "div"]
DivElement == [ref |-> FALSE, current |-> "div"]
DocumentTarget == [ref |-> FALSE, current |-> "document"]

\* The effect's resolvedTarget: "null" where the effect leaves it null.
resolveHookTarget(target) ==
    LET truthy == target.ref \/ target.current \notin {"undefined", "null"}
        resolved ==
            IF ~truthy THEN "null"
            ELSE IF target.ref /\ target.current # "null" /\ target.current \in HTMLElements
            THEN target.current
            ELSE IF ~target.ref /\ (target.current \in HTMLElements
                                    \/ target.current \in {"document", "window"})
            THEN target.current
            ELSE "null"
    IN  IF resolved = "null" /\ hasDocument THEN "document" ELSE resolved

\* registerOptions: enabled, the resolved target, and the options given.
HookRegisterOptions(options, resolved) ==
    [k \in {"enabled", "target"}
            \cup (DOMAIN options \cap {"preventDefault", "stopPropagation", "platform",
                                       "eventType", "requireReset", "ignoreInputs"}) |->
        IF k = "enabled" THEN TRUE
        ELSE IF k = "target" THEN resolved
        ELSE options[k]]

\* The effect of useHotkey(hotkey, callback, options) after a render.
HookEffect(hotkey, callback, options) ==
    LET enabled == IF "enabled" \in DOMAIN options THEN options.enabled ELSE TRUE
        target == IF "target" \in DOMAIN options THEN options.target ELSE NoTarget
        resolved == resolveHookTarget(target)
        id == registrationIdCounter + 1
        registerOptions == HookRegisterOptions(options, resolved)
        plat == IF "platform" \in DOMAIN options THEN options.platform ELSE platform
        parsed == parseHotkey(hotkey, plat)
        M == IF instance = "null" THEN EmptyMgr(domListeners) ELSE Mgr
    IN  /\ registrationIdCounter < MaxIds
        /\ ~ParseThrows(parsed)
        /\ IF ~enabled \/ resolved = "null"
           THEN /\ lastOp' = [op |-> "useHotkey", target |-> target, registered |-> FALSE]
                /\ UNCHANGED <<instance, registrationIdCounter, registrations,
                               targetListeners, targetRegistrations, domListeners,
                               handles>>
           ELSE /\ instance' = "live"
                /\ registrationIdCounter' = id
                /\ SetMgr(register(M, id, hotkey, parsed, callback, registerOptions, plat))
                /\ handles' = MapSet(handles, id, TRUE)
                /\ lastOp' = [op |-> "useHotkey", target |-> target, registered |-> TRUE,
                              id |-> id, resolved |-> resolved]
        /\ UNCHANGED <<hasDocument, platform>>
        /\ UNCHANGED <<sequenceVars, recorder>>

\* useHotkey with a hotkey string.
UseHotkey(hotkey, callback, options) == HookEffect(hotkey, callback, options)

\* useHotkey with a parsed hotkey, which the effect formats to a string.
UseHotkeyParsed(parsed, callback, options) ==
    HookEffect(splitHotkey(formatParsedHotkey(parsed)), callback, options)

HookOptions ==
    {NoOptions,
     [target |-> NullRef],
     [target |-> NullRef, platform |-> "mac"],
     [target |-> DivRef],
     [target |-> DivElement],
     [target |-> DocumentTarget],
     [enabled |-> FALSE],
     [target |-> DivRef, requireReset |-> TRUE]}

\* Presses and releases of 'k' and of 's' with Meta, from the body and from
\* inside the div.
HookEvents(current) ==
    {KeyEvent(type, k[1], FALSE, k[2], origin, current) :
        type \in {"keydown", "keyup"},
        k \in {<<"s", TRUE>>, <<"k", FALSE>>},
        origin \in {"body", "div"}}

NextHook ==
    \/ \E h \in {ModS, KeyK}, o \in HookOptions : UseHotkey(h, "cbA", o)
    \/ \E o \in HookOptions :
          UseHotkeyParsed([key |-> "S", ctrl |-> FALSE, shift |-> FALSE, alt |-> FALSE,
                           meta |-> TRUE], "cbA", o)
    \/ \E id \in 1..MaxIds : HandleUnregister(id)
    \/ \E t \in DomTargets : \E e \in HookEvents(t) : Dispatch(t, e)

SpecHook == Init /\ [][NextHook]_vars

-----------------------------------------------------------------------------
(* Callbacks that call back into the manager during a dispatch pass.        *)
(*   cbRegister       registers its own hotkey again on its own scope       *)
(*   cbUnregisterSelf calls the function its register call returned         *)
(*   cbReplaceSelf    registers its own hotkey again on its own scope with  *)
(*                    conflictBehavior 'replace'                            *)
(*   cbUnregisterNext calls the function that the register call after its   *)
(*                    own returned                                          *)
(* The pass runs 'for (const id of targetRegs)' over the Set it fetched     *)
(* when it began: a live view, which sees an id added to that Set while the *)
(* loop runs.  Once unregister has emptied the Set and                      *)
(* removeListenersForTarget has dropped it from the map, the loop still     *)
(* holds that empty Set and a later register makes a new one.               *)

ReentrantCallbacks ==
    {"cbRegister", "cbUnregisterSelf", "cbReplaceSelf", "cbUnregisterNext"}

\* What registration.callback(event, context) does to the manager.
CallbackEffect(acc, registration) ==
    LET id == acc.counter + 1
        again(options) ==
            [acc EXCEPT !.M = register(acc.M, id, registration.hotkey,
                                       registration.parsedHotkey, "cbA", options,
                                       registration.options.platform),
                        !.counter = id,
                        !.handles = MapSet(@, id, TRUE)]
        \* the call of a handle, noted with the number of callbacks invoked so far
        drop(other) ==
            [acc EXCEPT !.M = unregister(acc.M, other),
                        !.removed =
                            IF other \in DOMAIN acc.M.registrations
                            THEN @ \cup {[registration |-> acc.M.registrations[other],
                                          after |-> Len(acc.fired)]}
                            ELSE @]
    IN  CASE registration.callback = "cbRegister" ->
                again([target |-> registration.target])
          [] registration.callback = "cbReplaceSelf" ->
                again([target |-> registration.target, conflictBehavior |-> "replace"])
          [] registration.callback = "cbUnregisterSelf" -> drop(registration.id)
          [] registration.callback = "cbUnregisterNext" -> drop(registration.id + 1)
          [] OTHER -> acc

\* The content of the Set the loop iterates, as the loop sees it now.
LiveSet(acc, target) ==
    IF acc.attached /\ target \in DOMAIN acc.M.targetRegistrations
    THEN acc.M.targetRegistrations[target]
    ELSE << >>

RECURSIVE ProcessLoopLive(_, _, _, _)
ProcessLoopLive(acc, event, target, eventType) ==
    LET Unvisited(id) == id \notin acc.visited
        rest == SelectSeq(LiveSet(acc, target), Unvisited)
    IN  IF rest = << >> THEN acc
        ELSE LET id == rest[1]
                 acc0 == [acc EXCEPT !.visited = @ \cup {id}]
             IN  IF id \notin DOMAIN acc.M.registrations
                 THEN ProcessLoopLive(acc0, event, target, eventType)
                 ELSE LET registration == acc.M.registrations[id]
                          v == VisitRegistration(registration, event, target, eventType)
                          acc1 == IF v.exec
                                  THEN CallbackEffect(
                                           executeHotkeyCallback(acc0, registration, event),
                                           registration)
                                  ELSE acc0
                          acc2 == IF id \in DOMAIN acc1.M.registrations
                                  THEN [acc1 EXCEPT
                                           !.M.registrations[id].hasFired = v.hasFired]
                                  ELSE acc1
                          acc3 == [acc2 EXCEPT
                                      !.attached =
                                          @ /\ target \in DOMAIN acc2.M.targetRegistrations]
                      IN  ProcessLoopLive(acc3, event, target, eventType)

\* processTargetEvent where callbacks may call back into the manager.
processTargetEventLive(M, counter, issued, event, target, eventType) ==
    LET acc == [M |-> M, fired |-> << >>, prevented |-> FALSE, stopped |-> FALSE,
                counter |-> counter, handles |-> issued, visited |-> {},
                attached |-> TRUE, removed |-> {}]
    IN  IF target \notin DOMAIN M.targetRegistrations THEN acc
        ELSE ProcessLoopLive(acc, event, target, eventType)

\* The browser invokes the listener the manager attached to target; the
\* callbacks it runs may register and unregister.
DispatchReentrant(target, event) ==
    /\ domListeners[target][event.type] > 0
    /\ event.currentTarget = target
    /\ target \in Nodes => Contains(target, event.target)
    /\ LET acc == processTargetEventLive(Mgr, registrationIdCounter, handles, event,
                                         target, event.type)
       IN  /\ acc.counter <= MaxIds
           /\ SetMgr(acc.M)
           /\ registrationIdCounter' = acc.counter
           /\ handles' = acc.handles
           /\ lastOp' = [op |-> "dispatch", target |-> target, event |-> event,
                         fired |-> acc.fired, prevented |-> acc.prevented,
                         stopped |-> acc.stopped,
                         registered |-> DOMAIN acc.handles \ DOMAIN handles,
                         removed |-> acc.removed]
    /\ UNCHANGED <<hasDocument, platform, instance>>
    /\ UNCHANGED <<sequenceVars, recorder>>

ReentrantOptions == {NoOptions, [target |-> "div"], [requireReset |-> TRUE]}

\* Presses and releases of 'k' and of 's' with Meta, from inside the div.
ReentrantEvents(current) ==
    {KeyEvent(type, k[1], FALSE, k[2], "div", current) :
        type \in {"keydown", "keyup"},
        k \in {<<"s", TRUE>>, <<"k", FALSE>>}}

NextReentrant ==
    \/ GetInstance
    \/ \E h \in {ModS, KeyK}, c \in ReentrantCallbacks \cup {"cbA"}, o \in ReentrantOptions :
          Register(h, c, o)
    \/ \E id \in 1..MaxIds : HandleUnregister(id)
    \/ \E t \in {"document", "div"} : \E e \in ReentrantEvents(t) :
          DispatchReentrant(t, e)

SpecReentrant == Init /\ [][NextReentrant]_vars

-----------------------------------------------------------------------------
(* The HotkeyRecorder.  Its callbacks onRecord, onCancel and onClear are    *)
(* the caller's code, which may call back into the recorder:                *)
(*   none    returns                                                        *)
(*   start   calls recorder.start()                                         *)
(*   stop    calls recorder.stop()                                          *)
(*   cancel  calls recorder.cancel()                                        *)
(*   absent  the option is not given (onCancel and onClear are optional)    *)
(* A call runs on R: the recorder as it is now, the callbacks invoked so    *)
(* far, and whether an exception is propagating.                            *)

MaxRecordings == 3   \* handler closures made by start()
MaxCallDepth == 3    \* nested cancel() calls before the engine's stack is exhausted

\* isModifierKey, keyboardEventToHotkey, convertToModFormat and
\* hasNonModifierKey of ./parse.
ModifierKeys == {"Control", "Shift", "Alt", "Meta"}

isModifierKey(event) == event.key \in ModifierKeys

keyboardEventToHotkey(event) ==
    (IF event.ctrlKey THEN <<"Control">> ELSE << >>)
    \o (IF event.altKey THEN <<"Alt">> ELSE << >>)
    \o (IF event.shiftKey THEN <<"Shift">> ELSE << >>)
    \o (IF event.metaKey THEN <<"Meta">> ELSE << >>)
    \o <<normalizeKey(event.key)>>

convertToModFormat(hotkey, plat) ==
    LET primary == IF plat = "mac" THEN "Meta" ELSE "Control"
    IN  [i \in DOMAIN hotkey |-> IF hotkey[i] = primary THEN "Mod" ELSE hotkey[i]]

hasNonModifierKey(hotkey, plat) ==
    \E i \in DOMAIN hotkey : hotkey[i] \notin ModifierKeys \cup {"Mod"}

RecorderRun == [s |-> recorder, calls |-> << >>, threw |-> FALSE, handled |-> FALSE]

setState(R, isRecording, recordedHotkey) ==
    [R EXCEPT !.s.isRecording = isRecording, !.s.recordedHotkey = recordedHotkey]

addListener(R, handler) ==
    IF ~hasDocument THEN R
    ELSE [R EXCEPT !.s.attached = @ \cup {handler}]

removeListener(R, handler) ==
    IF ~hasDocument THEN R
    ELSE [R EXCEPT !.s.attached = @ \ {handler}]

\* Mutant: start() without its check for a recording in progress.
startUnguarded(R) ==
    LET handler == R.s.handlers + 1
        R1 == setState(R, TRUE, NullHotkey)
        R2 == [R1 EXCEPT !.s.handlers = handler, !.s.keydownHandler = handler]
    IN  addListener(R2, handler)

start(R) ==
    IF R.s.keydownHandler # 0 THEN R
    ELSE LET handler == R.s.handlers + 1
             R1 == setState(R, TRUE, NullHotkey)
             R2 == [R1 EXCEPT !.s.handlers = handler, !.s.keydownHandler = handler]
         IN  addListener(R2, handler)

stop(R) ==
    LET R1 == IF R.s.keydownHandler # 0
              THEN [removeListener(R, R.s.keydownHandler) EXCEPT !.s.keydownHandler = 0]
              ELSE R
    IN  setState(R1, FALSE, NullHotkey)

\* Mutant: cancel() that ends the recording without telling the caller.
cancelSilently(R, depth) == stop(R)

RECURSIVE cancel(_, _)

\* this.#options[name]?.(hotkey) from a call at the given depth of nested
\* cancel() calls; session is the handler closure whose recording the call is
\* about, 0 when there is none.
invoke(R, name, session, hotkey, depth) ==
    LET behaviour == R.s.options[name]
        R1 == [R EXCEPT !.calls = Append(@, [callback |-> name, session |-> session,
                                             hotkey |-> hotkey])]
    IN  CASE behaviour = "absent" -> R
          [] behaviour = "start" -> start(R1)
          [] behaviour = "stop" -> stop(R1)
          [] behaviour = "cancel" ->
                IF depth >= MaxCallDepth
                THEN [R1 EXCEPT !.threw = TRUE]     \* RangeError: call stack exhausted
                ELSE cancel(R1, depth + 1)
          [] OTHER -> R1

cancel(R, depth) ==
    invoke(stop(R), "onCancel", R.s.keydownHandler, NullHotkey, depth)

destroyRecorder(R) == setState(stop(R), FALSE, NullHotkey)

\* The handler closure that start() made, called with a keydown event.
keydownHandler(R, handler, event) ==
    IF R.s.keydownHandler = 0 THEN R
    ELSE LET R0 == [R EXCEPT !.handled = TRUE]
         IN  IF event.key = "Escape" THEN cancel(R0, 0)
             ELSE IF /\ event.key \in {"Backspace", "Delete"}
                     /\ ~event.ctrlKey /\ ~event.shiftKey
                     /\ ~event.altKey /\ ~event.metaKey
             THEN LET R1 == invoke(R0, "onClear", handler, NullHotkey, 0)
                      R2 == IF R1.threw THEN R1
                            ELSE invoke(R1, "onRecord", handler, EmptyHotkey, 0)
                  IN  IF R2.threw THEN R2 ELSE stop(R2)
             ELSE IF isModifierKey(event) THEN R0
             ELSE LET hotkey == keyboardEventToHotkey(event)
                      finalHotkey == convertToModFormat(hotkey, R0.s.platform)
                  IN  IF hasNonModifierKey(finalHotkey, R0.s.platform)
                      THEN LET R1 == [removeListener(R0, R0.s.keydownHandler)
                                         EXCEPT !.s.keydownHandler = 0]
                               R2 == setState(R1, FALSE, finalHotkey)
                           IN  invoke(R2, "onRecord", handler, finalHotkey, 0)
                      ELSE R0

\* The document calls the capture listeners it had when the event arrived,
\* in the order they were added, but for those removed meanwhile.
RECURSIVE callListeners(_, _, _)
callListeners(R, listeners, event) ==
    IF listeners = {} \/ R.threw THEN R
    ELSE LET handler == CHOOSE h \in listeners : \A g \in listeners : h <= g
             R1 == IF handler \in R.s.attached
                   THEN keydownHandler(R, handler, event)
                   ELSE R
         IN  callListeners(R1, listeners \ {handler}, event)

RecorderDone(op, R, event) ==
    /\ R.s.handlers <= MaxRecordings
    /\ recorder' = R.s
    /\ lastOp' = [op |-> op, calls |-> R.calls, threw |-> R.threw,
                  handled |-> R.handled, event |-> event]
    /\ UNCHANGED <<managerVars, sequenceVars>>

NoEvent == KeyEvent("none", "", FALSE, FALSE, "body", "document")

\* new HotkeyRecorder(options)
RecorderNew(options) ==
    /\ ~recorder.constructed
    /\ RecorderDone("recorderNew",
                    [RecorderRun EXCEPT !.s.constructed = TRUE,
                                        !.s.options = options,
                                        !.s.platform = platform],
                    NoEvent)

\* recorder.setOptions(partial)
RecorderSetOptions(partial) ==
    /\ recorder.constructed
    /\ RecorderDone("recorderSetOptions",
                    [RecorderRun EXCEPT !.s.options =
                        [k \in DOMAIN @ |-> IF k \in DOMAIN partial THEN partial[k]
                                            ELSE @[k]]],
                    NoEvent)

RecorderStart ==
    /\ recorder.constructed
    /\ RecorderDone("recorderStart", start(RecorderRun), NoEvent)

RecorderStop ==
    /\ recorder.constructed
    /\ RecorderDone("recorderStop", stop(RecorderRun), NoEvent)

RecorderCancel ==
    /\ recorder.constructed
    /\ RecorderDone("recorderCancel", cancel(RecorderRun, 0), NoEvent)

RecorderDestroy ==
    /\ recorder.constructed
    /\ RecorderDone("recorderDestroy", destroyRecorder(RecorderRun), NoEvent)

\* A key goes down while the document has a capture listener of the recorder.
RecorderKeydown(event) ==
    /\ recorder.attached # {}
    /\ RecorderDone("recorderKeydown",
                    callListeners(RecorderRun, recorder.attached, event), event)

RecorderBehaviours == {"none", "start", "stop", "cancel"}

RecorderOptions ==
    [onRecord : RecorderBehaviours,
     onCancel : RecorderBehaviours \cup {"absent"},
     onClear : RecorderBehaviours \cup {"absent"}]

RecorderPartialOptions == {[onCancel |-> "none"], [onRecord |-> "stop"]}

\* Escape, Backspace, Delete, Shift+Backspace, Shift alone, Meta+S, Control+S, K
RecorderEvents ==
    {[KeyEvent("keydown", k[1], k[2], k[3], "body", "document") EXCEPT !.shiftKey = k[4]] :
        k \in {<<"Escape", FALSE, FALSE, FALSE>>,
               <<"Backspace", FALSE, FALSE, FALSE>>,
               <<"Delete", FALSE, FALSE, FALSE>>,
               <<"Backspace", FALSE, FALSE, TRUE>>,
               <<"Shift", FALSE, FALSE, TRUE>>,
               <<"s", FALSE, TRUE, FALSE>>,
               <<"s", TRUE, FALSE, FALSE>>,
               <<"k", FALSE, FALSE, FALSE>>}}

\* The recorder in a browser and, without a document, on a server.
InitRecorder == \E doc \in BOOLEAN, plat \in {"mac", "windows"} : InitWith(doc, plat)

NextRecorder ==
    \/ \E o \in RecorderOptions : RecorderNew(o)
    \/ \E o \in RecorderPartialOptions : RecorderSetOptions(o)
    \/ RecorderStart
    \/ RecorderStop
    \/ RecorderCancel
    \/ RecorderDestroy
    \/ \E e \in RecorderEvents : RecorderKeydown(e)

SpecRecorder == InitRecorder /\ [][NextRecorder]_vars

-----------------------------------------------------------------------------
(* Vocabulary of the properties                                             *)

Active == DOMAIN registrations

\* A step that is a register call, and what the call asked for.
RegisterStep == lastOp'.op = "register" /\ registrationIdCounter' = registrationIdCounter + 1

AskedPlatform ==
    IF "platform" \in DOMAIN lastOp'.options THEN lastOp'.options.platform ELSE platform

AskedParsed == parseHotkey(lastOp'.hotkey, AskedPlatform)

AskedTarget == ResolveTarget(lastOp'.options, lastOp'.id)

AskedPolicy ==
    IF "conflictBehavior" \in DOMAIN lastOp'.options
    THEN lastOp'.options.conflictBehavior
    ELSE "warn"

\* The registrations active before the call that the asked one collides with.
Colliding ==
    {id \in Active : /\ registrations[id].parsedHotkey = AskedParsed
                     /\ registrations[id].target = AskedTarget}

TablesUnchanged ==
    UNCHANGED <<registrations, targetRegistrations, targetListeners, domListeners>>

\* A step that is one dispatch pass.
DispatchStep == lastOp'.op = "dispatch"

TimesFired(fired, id) == Cardinality({i \in 1..Len(fired) : fired[i].id = id})

PositionFired(fired, id) == CHOOSE i \in 1..Len(fired) : fired[i].id = id

\* The event is one the registration is to fire on: it embodies the hotkey,
\* is of the registration's phase, and nothing holds the registration back.
FiresOn(r, e) ==
    /\ r.options.enabled
    /\ r.options.eventType = e.type
    /\ normalizeKey(e.key) = r.parsedHotkey.key
    /\ <<e.ctrlKey, e.shiftKey, e.altKey, e.metaKey>> =
           <<r.parsedHotkey.ctrl, r.parsedHotkey.shift, r.parsedHotkey.alt,
             r.parsedHotkey.meta>>
    /\ ~(e.type = "keydown" /\ r.options.requireReset /\ r.hasFired)
    /\ ~(r.options.ignoreInputs # FALSE /\ e.target = "input" /\ r.target # "input")

\* The released key is the registration's primary key or a modifier it requires.
ReleasesOwnKey(r, e) ==
    /\ e.type = "keyup"
    /\ \/ normalizeKey(e.key) = r.parsedHotkey.key
       \/ e.key = "Control" /\ r.parsedHotkey.ctrl
       \/ e.key = "Shift" /\ r.parsedHotkey.shift
       \/ e.key = "Alt" /\ r.parsedHotkey.alt
       \/ e.key = "Meta" /\ r.parsedHotkey.meta

-----------------------------------------------------------------------------
(* Properties                                                               *)

\* C1: every scope has exactly one keydown and one keyup listener attached
\* while at least one registration is bound to it, however many share it,
\* and none otherwise: in every reachable state, so the pair goes in the step
\* that removes the scope's last registration and is back with the next one.
C1_ListenersIffRegistered ==
    \A t \in DomTargets :
        domListeners[t] =
            IF \E id \in Active : registrations[id].target = t
            THEN [keydown |-> 1, keyup |-> 1]
            ELSE NoListeners

\* A register call has just bound a second registration to a scope that
\* already had one, and the scope carries a single listener pair.
C1_Witness ==
    /\ lastOp.op = "register"
    /\ \E i, j \in Active :
          /\ i # j
          /\ registrations[i].target = registrations[j].target
          /\ registrations[i].target \in DomTargets
          /\ domListeners[registrations[i].target] = [keydown |-> 1, keyup |-> 1]

\* C2 (as claimed): registering a hotkey identical to an active one on the
\* same scope with no conflict policy given logs exactly one warning, does
\* not throw and leaves both registrations active.
C2_WarnLogsOneWarning ==
    [][(/\ RegisterStep
        /\ "conflictBehavior" \notin DOMAIN lastOp'.options
        /\ Colliding # {})
       => (/\ lastOp'.warnings = 1
           /\ ~lastOp'.threw
           /\ Colliding \subseteq DOMAIN registrations'
           /\ lastOp'.id \in DOMAIN registrations'
           /\ getRegistrationCount(Mgr)' = getRegistrationCount(Mgr) + 1)]_vars

\* C3 (as claimed): with policy 'error' a colliding register throws and
\* leaves the manager exactly as it was.
C3_ErrorPolicyThrows ==
    [][(RegisterStep /\ AskedPolicy = "error" /\ Colliding # {})
       => (lastOp'.threw /\ TablesUnchanged)]_vars

\* C4 (as claimed): with policy 'replace' a colliding register unregisters
\* the prior registration and stores the new one, so the count stays as it
\* was for one prior registration and the prior callback cannot fire again.
C4_ReplacePolicyReplaces ==
    [][(RegisterStep /\ AskedPolicy = "replace" /\ Colliding # {})
       => (/\ ~lastOp'.threw
           /\ lastOp'.id \in DOMAIN registrations'
           /\ Colliding \cap DOMAIN registrations' = {}
           /\ (Cardinality(Colliding) = 1 =>
                 getRegistrationCount(Mgr)' = getRegistrationCount(Mgr)))]_vars

\* C5: with policy 'allow' a colliding register logs no warning and keeps
\* both registrations active; a dispatch pass for an event that two colliding
\* registrations are to fire on invokes each callback exactly once, the one
\* registered first before the other.
C5_AllowKeepsBothInOrder ==
    [][/\ (RegisterStep /\ AskedPolicy = "allow" /\ Colliding # {})
          => (/\ lastOp'.warnings = 0
              /\ ~lastOp'.threw
              /\ Colliding \subseteq DOMAIN registrations'
              /\ lastOp'.id \in DOMAIN registrations')
       /\ DispatchStep
          => \A i, j \in Active :
                (/\ i < j
                 /\ registrations[i].target = lastOp'.target
                 /\ registrations[j].target = lastOp'.target
                 /\ registrations[i].parsedHotkey = registrations[j].parsedHotkey
                 /\ FiresOn(registrations[i], lastOp'.event)
                 /\ FiresOn(registrations[j], lastOp'.event))
                => (/\ TimesFired(lastOp'.fired, i) = 1
                    /\ TimesFired(lastOp'.fired, j) = 1
                    /\ PositionFired(lastOp'.fired, i) < PositionFired(lastOp'.fired, j))]_vars

\* A pass has just invoked the callbacks of two colliding registrations, the
\* second of them registered with policy 'allow', in registration order.
C5_Witness ==
    /\ lastOp.op = "dispatch"
    /\ Len(lastOp.fired) = 2
    /\ lastOp.fired[1].id < lastOp.fired[2].id
    /\ {lastOp.fired[1].id, lastOp.fired[2].id} \subseteq Active
    /\ registrations[lastOp.fired[1].id].parsedHotkey =
           registrations[lastOp.fired[2].id].parsedHotkey
    /\ "conflictBehavior" \in DOMAIN registrations[lastOp.fired[2].id].options
    /\ registrations[lastOp.fired[2].id].options.conflictBehavior = "allow"

\* C6 (as claimed): register applies a conflict policy (a warning, an error
\* or a replacement) exactly when an active registration has the identical
\* canonical parsed hotkey and the identical scope; never across scopes.
C6_CollisionIffSameHotkeyAndScope ==
    [][(RegisterStep /\ AskedParsed # ParseError /\ AskedPolicy # "allow")
       => ((Colliding # {}) <=>
           \/ lastOp'.warnings > 0
           \/ lastOp'.threw
           \/ Active \ DOMAIN registrations' # {})]_vars

\* C7: a register call whose descriptor fails to parse throws and leaves the
\* manager unchanged: no registration stored, the count as before, no id in
\* any scope's set, no listener attached.
C7_ParseFailureLeavesManagerUnchanged ==
    [][(RegisterStep /\ AskedParsed = ParseError)
       => (/\ lastOp'.threw
           /\ TablesUnchanged
           /\ lastOp'.id \notin DOMAIN registrations'
           /\ getRegistrationCount(Mgr)' = getRegistrationCount(Mgr))]_vars

\* A register call with an unparsable descriptor has just thrown on a manager
\* that holds a registration.
C7_Witness ==
    /\ lastOp.op = "register"
    /\ lastOp.threw
    /\ parseHotkey(lastOp.hotkey, platform) = ParseError
    /\ getRegistrationCount(Mgr) = 1

\* C8 (as claimed): once a registration is gone, unregister, setOptions and
\* callback assignment through its handle do not throw and change nothing.
C8_HandleSafeAfterUnregister ==
    [][(/\ lastOp'.op \in {"unregister", "setOptions", "setCallback"}
        /\ lastOp'.id \notin Active)
       => (~lastOp'.threw /\ TablesUnchanged)]_vars

\* C9: a latch-until-release registration fires at most once per pass and not
\* at all on a press while latched; a press that fires it latches it; and the
\* latch is cleared only by a release of its primary key or of a modifier it
\* requires, so any other release leaves it set.
C9_LatchUntilOwnKeyReleased ==
    [][\A id \in Active \cap DOMAIN registrations' :
          LET r == registrations[id]
              after == registrations'[id]
          IN  r.options.requireReset =>
                /\ (r.hasFired /\ ~after.hasFired)
                      => (DispatchStep /\ ReleasesOwnKey(r, lastOp'.event))
                /\ DispatchStep =>
                      /\ TimesFired(lastOp'.fired, id) <= 1
                      /\ (lastOp'.event.type = "keydown" /\ r.hasFired)
                            => (TimesFired(lastOp'.fired, id) = 0 /\ after.hasFired)
                      /\ (lastOp'.event.type = "keydown"
                             /\ TimesFired(lastOp'.fired, id) = 1)
                            => (~r.hasFired /\ after.hasFired)
                      /\ (/\ lastOp'.event.type = "keydown"
                          /\ registrations[id].target = lastOp'.target
                          /\ FiresOn(r, lastOp'.event))
                            => TimesFired(lastOp'.fired, id) = 1]_vars

\* A latched registration has just been passed a repeat of its own press and
\* did not fire.
C9_Witness ==
    /\ lastOp.op = "dispatch"
    /\ lastOp.event.type = "keydown"
    /\ lastOp.fired = << >>
    /\ \E id \in Active :
          /\ registrations[id].options.requireReset
          /\ registrations[id].hasFired
          /\ registrations[id].target = lastOp.target
          /\ matchesKeyboardEvent(lastOp.event, registrations[id].parsedHotkey, platform)

\* C10 (as claimed): a mutation through a live handle is seen by the very
\* next event: after setOptions({enabled: false}) the next pass does not
\* invoke the callback, and after a callback assignment the next pass invokes
\* the new function, never the old one.
C10_HandleMutationSeenByNextEvent ==
    [][(lastOp.op \in {"setOptions", "setCallback"} /\ lastOp.id \in Active /\ DispatchStep)
       => \A i \in 1..Len(lastOp'.fired) :
             lastOp'.fired[i].id = lastOp.id =>
                /\ lastOp.op = "setOptions" => lastOp.options.enabled
                /\ lastOp.op = "setCallback" =>
                      lastOp'.fired[i].callback = lastOp.callback]_vars

-----------------------------------------------------------------------------
(* Properties of event routing                                              *)

EditableControls == {"input", "textarea", "select", "editable"}

\* The event embodies the registration's hotkey in the registration's own
\* phase, and the registration is enabled and not held back by its latch.
Due(r, e) ==
    /\ r.options.enabled
    /\ r.options.eventType = e.type
    /\ normalizeKey(e.key) = r.parsedHotkey.key
    /\ <<e.ctrlKey, e.shiftKey, e.altKey, e.metaKey>> =
           <<r.parsedHotkey.ctrl, r.parsedHotkey.shift, r.parsedHotkey.alt,
             r.parsedHotkey.meta>>
    /\ ~(e.type = "keydown" /\ r.options.requireReset /\ r.hasFired)

\* The pass is the one of the registration's scope, in a browser that reports
\* the scope itself as the event's currentTarget.
ReachesScope(r) == r.target = lastOp'.target /\ lastOp'.event.currentTarget = r.target

Embodies(r, e) ==
    /\ normalizeKey(e.key) = r.parsedHotkey.key
    /\ <<e.ctrlKey, e.shiftKey, e.altKey, e.metaKey>> =
           <<r.parsedHotkey.ctrl, r.parsedHotkey.shift, r.parsedHotkey.alt,
             r.parsedHotkey.meta>>

\* The event comes from an editable control that is not the registration's scope.
FromForeignInput(r, e) == e.target \in EditableControls /\ r.target # e.target

\* The step before was the register call that made registration id.
JustRegistered(id) ==
    /\ lastOp.op = "register"
    /\ ~lastOp.threw
    /\ lastOp.id = id
    /\ id \in Active

\* C12 (as claimed): when the caller gives no ignoreInputs, a hotkey with a
\* Ctrl or Meta modifier and the Escape key fire for an event that originates
\* in an editable control, while an unmodified key and a Shift+key hotkey are
\* suppressed there; an explicit ignoreInputs decides in both directions.
C12_SmartDefault ==
    [][\A id \in Active :
          LET r == registrations[id]
              e == lastOp'.event
              passes ==
                  IF "ignoreInputs" \in DOMAIN lastOp.options
                  THEN ~lastOp.options.ignoreInputs
                  ELSE r.parsedHotkey.ctrl \/ r.parsedHotkey.meta
                          \/ r.parsedHotkey.key = "Escape"
          IN  (/\ JustRegistered(id)
               /\ DispatchStep
               /\ ReachesScope(r)
               /\ Due(r, e)
               /\ FromForeignInput(r, e))
              => TimesFired(lastOp'.fired, id) = IF passes THEN 1 ELSE 0]_vars

\* C13 (as claimed): a registration scoped to the document or the window
\* fires for a matching event whose currentTarget is the document's root
\* element, as it does when currentTarget is the scope itself.
C13_RootElementSatisfiesDocumentScope ==
    [][DispatchStep =>
         \A id \in Active :
            LET r == registrations[id]
                e == lastOp'.event
            IN  (/\ r.target \in {"document", "window"}
                 /\ r.target = lastOp'.target
                 /\ e.currentTarget \in {r.target, "html"}
                 /\ Due(r, e)
                 /\ ~(r.options.ignoreInputs # FALSE /\ FromForeignInput(r, e)))
                => TimesFired(lastOp'.fired, id) = 1]_vars

\* C14: a registration is invoked only by events of its own trigger phase;
\* a release-triggered registration fires on every matching release that
\* reaches it, and it is never latched, so no latch holds it back.
C14_OwnPhaseOnly ==
    [][DispatchStep =>
         \A id \in Active :
            LET r == registrations[id]
                e == lastOp'.event
            IN  /\ TimesFired(lastOp'.fired, id) > 0 => r.options.eventType = e.type
                /\ r.options.eventType = "keyup" =>
                      /\ ~r.hasFired /\ ~registrations'[id].hasFired
                      /\ (/\ e.type = "keyup"
                          /\ ReachesScope(r)
                          /\ r.options.enabled
                          /\ Embodies(r, e)
                          /\ ~(r.options.ignoreInputs # FALSE /\ FromForeignInput(r, e)))
                         => TimesFired(lastOp'.fired, id) = 1]_vars

\* A release-triggered registration that asks for a latch has just fired on
\* the release of its key.
C14_Witness ==
    /\ lastOp.op = "dispatch"
    /\ lastOp.event.type = "keyup"
    /\ Len(lastOp.fired) = 1
    /\ lastOp.fired[1].id \in Active
    /\ registrations[lastOp.fired[1].id].options.eventType = "keyup"
    /\ registrations[lastOp.fired[1].id].options.requireReset

\* C15 (as claimed): a registration made without preventDefault or
\* stopPropagation has both called on the event it fires for; with an option
\* given as false the corresponding call is not made.
C15_PreventAndStopByDefault ==
    [][\A id \in Active :
          (/\ JustRegistered(id)
           /\ DispatchStep
           /\ lastOp'.fired = <<[id |-> id, callback |-> registrations[id].callback]>>)
          => /\ lastOp'.prevented = IF "preventDefault" \in DOMAIN lastOp.options
                                    THEN lastOp.options.preventDefault
                                    ELSE TRUE
             /\ lastOp'.stopped = IF "stopPropagation" \in DOMAIN lastOp.options
                                  THEN lastOp.options.stopPropagation
                                  ELSE TRUE]_vars

\* C16 (as claimed): a matching press that reaches a latched registration
\* with preventDefault (stopPropagation) enabled has preventDefault
\* (stopPropagation) called on it, and the callback is not invoked again.
C16_LatchedPressStillPrevented ==
    [][DispatchStep =>
         \A id \in Active :
            LET r == registrations[id]
                e == lastOp'.event
            IN  (/\ e.type = "keydown"
                 /\ r.options.eventType = "keydown"
                 /\ r.options.requireReset
                 /\ r.hasFired
                 /\ r.options.enabled
                 /\ ReachesScope(r)
                 /\ Embodies(r, e)
                 /\ ~(r.options.ignoreInputs # FALSE /\ FromForeignInput(r, e)))
                => /\ TimesFired(lastOp'.fired, id) = 0
                   /\ r.options.preventDefault => lastOp'.prevented
                   /\ r.options.stopPropagation => lastOp'.stopped]_vars

-----------------------------------------------------------------------------
(* Properties of the manager's lifecycle                                    *)

-----------------------------------------------------------------------------
(* Properties of the sequence engine                                        *)

SequencePressStep == lastOp'.op = "sequencePress"

SequenceAdvanceStep == lastOp'.op = "sequenceAdvance"

\* The key the registration waits for.
ExpectedKey(reg) == reg.orderedKeys[reg.progressIndex + 1]

\* The press completes the registration's sequence.
Completes(reg, key) ==
    /\ normalizeKey(key) = ExpectedKey(reg)
    /\ reg.progressIndex = Len(reg.orderedKeys) - 1

SequenceFired(fired, id) == Cardinality({i \in 1..Len(fired) : fired[i] = id})

\* C18: pressing a sequence's keys in order invokes its callback exactly once,
\* on the press that completes the sequence and on no earlier press (each of
\* which advances progress by one); completion resets progress to 0 and
\* clears the pending timeout, so the sequence can be completed again at once.
C18_FiresOnCompletionOnly ==
    [][SequencePressStep =>
         \A id \in DOMAIN sequenceRegistrations :
            LET reg == sequenceRegistrations[id]
                after == sequenceRegistrations'[id]
                key == lastOp'.key
            IN  /\ SequenceFired(lastOp'.fired, id) = IF Completes(reg, key) THEN 1 ELSE 0
                /\ Completes(reg, key) => (after.progressIndex = 0 /\ after.timer = 0)
                /\ (normalizeKey(key) = ExpectedKey(reg) /\ ~Completes(reg, key))
                      => after.progressIndex = reg.progressIndex + 1
                /\ after.progressIndex \in 0..(Len(reg.orderedKeys) - 1)]_vars

\* The third key of a three-key sequence with a timeout has just been
\* pressed after the first two: the callback was invoked, progress is 0 and
\* no timeout is pending.
C18_Witness ==
    /\ lastOp.op = "sequencePress"
    /\ \E id \in DOMAIN sequenceRegistrations :
          /\ lastOp.fired = <<id>>
          /\ lastOp.before[id] = 2
          /\ Len(sequenceRegistrations[id].orderedKeys) = 3
          /\ sequenceRegistrations[id].timeoutMillis > 0
          /\ sequenceRegistrations[id].progressIndex = 0
          /\ sequenceRegistrations[id].timer = 0

\* C19: while a sequence with a timeout T has made progress, a timeout is
\* pending; a wait longer than T resets progress to 0 with no callback, and a
\* wait shorter than the time left keeps progress; the press after a wait
\* longer than T fires nothing for a sequence of two or more keys, and if it
\* is the first key it starts a new attempt at progress 1; the press of the
\* last key after a wait that left progress in place fires.
C19_TimeoutResetsSilently ==
    [][\A id \in DOMAIN sequenceRegistrations \cap DOMAIN sequenceRegistrations' :
          LET reg == sequenceRegistrations[id]
              after == sequenceRegistrations'[id]
              T == reg.timeoutMillis
          IN  T > 0 =>
                /\ reg.progressIndex > 0 => reg.timer \in 1..T
                /\ (SequenceAdvanceStep /\ lastOp'.by > T)
                      => (after.progressIndex = 0 /\ after.timer = 0)
                /\ (SequenceAdvanceStep /\ lastOp'.by < reg.timer)
                      => after.progressIndex = reg.progressIndex
                /\ (/\ lastOp.op = "sequenceAdvance"
                    /\ lastOp.by > T
                    /\ SequencePressStep
                    /\ Len(reg.orderedKeys) > 1)
                      => /\ SequenceFired(lastOp'.fired, id) = 0
                         /\ after.progressIndex =
                               IF normalizeKey(lastOp'.key) = reg.orderedKeys[1]
                               THEN 1 ELSE 0
                /\ (/\ lastOp.op = "sequenceAdvance"
                    /\ SequencePressStep
                    /\ Completes(reg, lastOp'.key))
                      => SequenceFired(lastOp'.fired, id) = 1]_vars

\* A wait longer than the timeout has just reset the progress a sequence had
\* made.
C19_Witness ==
    /\ lastOp.op = "sequenceAdvance"
    /\ \E id \in DOMAIN sequenceRegistrations :
          /\ sequenceRegistrations[id].timeoutMillis > 0
          /\ lastOp.by > sequenceRegistrations[id].timeoutMillis
          /\ lastOp.before[id] > 0
          /\ sequenceRegistrations[id].progressIndex = 0
          /\ sequenceRegistrations[id].timer = 0

\* C20: a press of a key other than the expected one invokes no callback;
\* if the key is the sequence's first key, progress becomes 1 and the timeout
\* runs afresh, otherwise progress becomes 0 and no timeout is pending.
C20_MismatchRestartsOrAbandons ==
    [][SequencePressStep =>
         \A id \in DOMAIN sequenceRegistrations :
            LET reg == sequenceRegistrations[id]
                after == sequenceRegistrations'[id]
                k == normalizeKey(lastOp'.key)
            IN  k # ExpectedKey(reg) =>
                  /\ SequenceFired(lastOp'.fired, id) = 0
                  /\ IF k = reg.orderedKeys[1]
                     THEN after.progressIndex = 1 /\ after.timer = reg.timeoutMillis
                     ELSE after.progressIndex = 0 /\ after.timer = 0]_vars

\* K has just been pressed for the sequence K S that was already at progress
\* 1: nothing fired, progress is 1 and the whole timeout is pending.
C20_Witness ==
    /\ lastOp.op = "sequencePress"
    /\ lastOp.key = "k"
    /\ lastOp.fired = << >>
    /\ \E id \in DOMAIN sequenceRegistrations :
          /\ sequenceRegistrations[id].orderedKeys = <<"K", "S">>
          /\ lastOp.before[id] = 1
          /\ sequenceRegistrations[id].progressIndex = 1
          /\ sequenceRegistrations[id].timer = SequenceTimeout

\* C21: registering an empty sequence throws and registers nothing: the
\* registrations, their count and their timeouts are as before the call.
C21_EmptySequenceRejected ==
    [][(lastOp'.op = "sequenceRegister" /\ Len(lastOp'.keys) = 0)
       => /\ lastOp'.threw
          /\ sequenceRegistrations' = sequenceRegistrations
          /\ Cardinality(DOMAIN sequenceRegistrations') =
                Cardinality(DOMAIN sequenceRegistrations)]_vars

\* register([]) has just thrown on an engine that holds a sequence in
\* progress with its timeout pending.
C21_Witness ==
    /\ lastOp.op = "sequenceRegister"
    /\ lastOp.keys = << >>
    /\ lastOp.threw
    /\ \E id \in DOMAIN sequenceRegistrations :
          /\ sequenceRegistrations[id].progressIndex > 0
          /\ sequenceRegistrations[id].timer > 0

\* C30: at every moment at most one timeout is pending per sequence
\* registration, the one whose token it keeps; a press that advances or
\* restarts the sequence leaves exactly one, with the whole timeout to run;
\* and a wait shorter than the time left on it resets no progress.
C30_OneTimeoutPending ==
    [][\A id \in DOMAIN sequenceRegistrations' :
          LET after == sequenceRegistrations'[id]
          IN  /\ PendingCount(after) <= 1
              /\ PendingCount(after) = 1 <=> after.timer > 0
              /\ after.timer > 0 => after.pending[after.timer] = 1
              /\ (SequencePressStep /\ after.progressIndex > 0 /\ after.timeoutMillis > 0)
                    => after.timer = after.timeoutMillis
              /\ (/\ SequenceAdvanceStep
                  /\ id \in DOMAIN sequenceRegistrations
                  /\ lastOp'.by < sequenceRegistrations[id].timer)
                    => after.progressIndex = sequenceRegistrations[id].progressIndex]_vars

\* A press has just advanced a three-key sequence from progress 1, where a
\* timeout was pending, to progress 2: one timeout is pending, with the whole
\* time to run.
C30_Witness ==
    /\ lastOp.op = "sequencePress"
    /\ \E id \in DOMAIN sequenceRegistrations :
          /\ lastOp.before[id] = 1
          /\ sequenceRegistrations[id].progressIndex = 2
          /\ sequenceRegistrations[id].timeoutMillis > 0
          /\ sequenceRegistrations[id].timer = sequenceRegistrations[id].timeoutMillis
          /\ PendingCount(sequenceRegistrations[id]) = 1

-----------------------------------------------------------------------------
(* Properties of the parser, the matcher and the validator                  *)

\* The modifier flags an event carries, under the names of the parsed hotkey.
EventFlags(e) ==
    [ctrl |-> e.ctrlKey, shift |-> e.shiftKey, alt |-> e.altKey, meta |-> e.metaKey]

\* The modifiers on which the event and the parsed hotkey disagree.
DifferingModifiers(e, parsed) ==
    {m \in {"ctrl", "shift", "alt", "meta"} : EventFlags(e)[m] # parsed[m]}

\* C22: the matcher is true exactly when the event's canonical key is the
\* parsed hotkey's key and the event and the hotkey disagree on none of the
\* four modifiers; in a dispatch pass a registration of the pass's scope is
\* not fired by an event of another key or with a modifier flag that differs
\* (one held in excess or one missing), and is fired once by a press that
\* agrees on the key and on all four.
C22_MatcherExact ==
    [][/\ lastOp'.op = "matches"
          => (lastOp'.result <=>
                /\ normalizeKey(lastOp'.event.key) = lastOp'.parsed.key
                /\ DifferingModifiers(lastOp'.event, lastOp'.parsed) = {})
       /\ DispatchStep
          => \A id \in Active :
                LET r == registrations[id]
                    e == lastOp'.event
                    agrees == /\ normalizeKey(e.key) = r.parsedHotkey.key
                              /\ DifferingModifiers(e, r.parsedHotkey) = {}
                IN  /\ ~agrees => TimesFired(lastOp'.fired, id) = 0
                    /\ (/\ agrees
                        /\ r.target = lastOp'.target
                        /\ r.options.enabled
                        /\ r.options.eventType = e.type
                        /\ ~r.options.requireReset
                        /\ e.target \notin EditableControls)
                          => TimesFired(lastOp'.fired, id) = 1]_vars

\* A press of 's' with Meta and, in excess, Shift has just reached the
\* document, where 'Mod+S' is registered under mac: nothing fired.
C22_Witness ==
    /\ lastOp.op = "dispatch"
    /\ lastOp.event.key = "s"
    /\ lastOp.fired = << >>
    /\ \E id \in Active :
          /\ registrations[id].target = lastOp.target
          /\ registrations[id].parsedHotkey.key = "S"
          /\ DifferingModifiers(lastOp.event, registrations[id].parsedHotkey) = {"shift"}
          /\ lastOp.event.shiftKey

\* C23 (as claimed): for every descriptor that parses, of either shape, and
\* either platform, the canonical string of the parsed value (Control, Alt,
\* Shift, Meta, then the key, joined with '+') parses again under the same
\* platform to the identical parsed value, no 'Mod' left in it.
C23_ReparseIdentical ==
    [][lastOp'.op = "formatParse"
       => (/\ lastOp'.reparsed = lastOp'.parsed
           /\ \A i \in 1..Len(lastOp'.formatted) : lastOp'.formatted[i] # "Mod")]_vars

\* C24: validateHotkey never throws and reports valid = false exactly when
\* the parser rejects the hotkey, which is exactly when it lists an error,
\* whatever warnings it lists; assertValidHotkey throws exactly when
\* validateHotkey reports valid = false; checkHotkey never throws and returns
\* validateHotkey's valid flag.
C24_ValidationEntryPointsAgree ==
    [][/\ lastOp'.op = "validateHotkey"
          => (/\ ~lastOp'.threw
              /\ lastOp'.result.valid <=> lastOp'.result.errors = << >>
              /\ \A p \in Platforms :
                    ~lastOp'.result.valid <=> ParseThrows(parseHotkey(lastOp'.hotkey, p)))
       /\ lastOp'.op = "assertValidHotkey"
          => (lastOp'.threw <=> ~validateHotkey(lastOp'.hotkey).valid)
       /\ lastOp'.op = "checkHotkey"
          => (/\ ~lastOp'.threw
              /\ lastOp'.result = validateHotkey(lastOp'.hotkey).valid)]_vars

\* validateHotkey has just returned a valid result that carries a warning.
C24_Witness ==
    /\ lastOp.op = "validateHotkey"
    /\ lastOp.result.valid
    /\ lastOp.result.warnings # << >>
    /\ ~ParseThrows(parseHotkey(lastOp.hotkey, platform))

-----------------------------------------------------------------------------
(* Properties of the manager without a document                             *)

\* C25: where there is no document, a register call with a well-formed
\* descriptor does not throw and its registration is stored and counted; no
\* listener is attached to anything, so no dispatch pass can run and the
\* registration cannot fire; and unregistering does not throw and takes the
\* registration out of the count.
C25_NoDocumentDegrades ==
    [][~hasDocument =>
         /\ (RegisterStep /\ AskedParsed # ParseError)
               => (/\ ~lastOp'.threw
                   /\ lastOp'.id \in DOMAIN registrations'
                   /\ getRegistrationCount(Mgr)' = getRegistrationCount(Mgr) + 1)
         /\ targetListeners' = {}
         /\ \A t \in DomTargets : domListeners'[t] = NoListeners
         /\ \A t \in DomTargets : \A e \in Events(t) : ~ENABLED Dispatch(t, e)
         /\ lastOp'.op = "unregister"
               => (/\ ~lastOp'.threw
                   /\ lastOp'.id \notin DOMAIN registrations'
                   /\ lastOp'.id \in Active
                         => getRegistrationCount(Mgr)' = getRegistrationCount(Mgr) - 1)]_vars

\* Without a document, one of two registrations has just been unregistered:
\* the other is still counted, and no listener exists.
C25_Witness ==
    /\ ~hasDocument
    /\ lastOp.op = "unregister"
    /\ lastOp.id \in DOMAIN handles
    /\ lastOp.id \notin Active
    /\ getRegistrationCount(Mgr) = 1
    /\ targetListeners = {}

-----------------------------------------------------------------------------
(* Properties of the React hook                                             *)

\* C26 (as claimed): useHotkey given a ref whose current value is null binds
\* nothing to the document, and a press that embodies the hotkey, dispatched
\* on the document right after, does not invoke the callback.
C26_NullRefNotBoundToDocument ==
    [][/\ (lastOp'.op = "useHotkey" /\ lastOp'.target = NullRef)
          => \A id \in DOMAIN registrations' \ Active :
                registrations'[id].target # "document"
       /\ (/\ lastOp.op = "useHotkey"
           /\ lastOp.target = NullRef
           /\ DispatchStep
           /\ lastOp'.target = "document")
          => lastOp'.fired = << >>]_vars

-----------------------------------------------------------------------------
(* Properties of callbacks that call back into the manager                  *)

\* C27 (as claimed): a pass considers the registrations its scope had when
\* the pass began: one that a callback adds to the scope during the pass is
\* not fired in that pass, though it matches the event; it is fired by the
\* next event it is due on.
C27_PassIteratesSnapshot ==
    [][DispatchStep =>
         /\ \A i \in 1..Len(lastOp'.fired) : lastOp'.fired[i].id \in Active
         /\ lastOp.op = "dispatch" =>
               \A id \in lastOp.registered \cap Active :
                  (/\ registrations[id].target = lastOp'.target
                   /\ FiresOn(registrations[id], lastOp'.event))
                  => TimesFired(lastOp'.fired, id) >= 1]_vars

\* The ids a pass fired with the given callback.
FiredWith(fired, callback) ==
    {fired[i].id : i \in {j \in 1..Len(fired) : fired[j].callback = callback}}

\* C28 (as claimed): a pass whose callbacks unregister their own
\* registration, or register their hotkey again with policy 'replace', ends
\* with each such registration gone, so that it cannot fire again; with the
\* count lowered by one per self-unregistration and unchanged by a
\* replacement; and with a listener pair on exactly the scopes that still
\* have a registration.
C28_ReentrantCallsAreSafe ==
    [][(DispatchStep /\ FiredWith(lastOp'.fired, "cbRegister") = {}) =>
         /\ \A id \in FiredWith(lastOp'.fired, "cbUnregisterSelf")
                      \cup FiredWith(lastOp'.fired, "cbReplaceSelf") :
                id \notin DOMAIN registrations'
         /\ getRegistrationCount(Mgr)' =
                getRegistrationCount(Mgr)
                - Cardinality(FiredWith(lastOp'.fired, "cbUnregisterSelf"))
         /\ \A t \in DomTargets :
                domListeners'[t] =
                    IF \E id \in DOMAIN registrations' : registrations'[id].target = t
                    THEN [keydown |-> 1, keyup |-> 1]
                    ELSE NoListeners]_vars

-----------------------------------------------------------------------------
(* Properties of the latch                                                  *)

\* C29 (as claimed): whenever the listener of a registration's scope is
\* passed a release of the registration's primary key or of a modifier it
\* requires, the registration is not latched after the pass, whatever its
\* trigger phase, its enabled flag and the element the event comes from.
C29_ReleaseClearsLatch ==
    [][DispatchStep =>
         \A id \in Active \cap DOMAIN registrations' :
            (/\ registrations[id].target = lastOp'.target
             /\ ReleasesOwnKey(registrations[id], lastOp'.event))
            => ~registrations'[id].hasFired]_vars

-----------------------------------------------------------------------------
(* Further properties of the sequence engine                                *)

\* C31: unregistering a sequence lowers the registration count by one and
\* takes the registration out of the table with its pending timeout, also
\* when the sequence was in progress: no timeout of an unregistered sequence
\* is scheduled after any step, none runs as time passes, and no press
\* invokes the callback of an unregistered sequence.
C31_UnregisterRemovesTimeout ==
    [][/\ (lastOp'.op = "sequenceUnregister" /\ lastOp'.id \in DOMAIN sequenceRegistrations)
          => (/\ lastOp'.id \notin DOMAIN sequenceRegistrations'
              /\ Cardinality(DOMAIN sequenceRegistrations') =
                     Cardinality(DOMAIN sequenceRegistrations) - 1)
       /\ \A id \in DOMAIN sequenceOrphans' :
              \A t \in DOMAIN sequenceOrphans'[id] : sequenceOrphans'[id][t] = 0
       /\ SequenceAdvanceStep => lastOp'.ran = {}
       /\ SequencePressStep
          => \A i \in 1..Len(lastOp'.fired) :
                lastOp'.fired[i] \in DOMAIN sequenceRegistrations]_vars

\* A sequence registered with a timeout has just been unregistered while it
\* was in progress; another sequence is still registered.
C31_Witness ==
    /\ lastOp.op = "sequenceUnregister"
    /\ lastOp.id \in DOMAIN lastOp.before
    /\ lastOp.before[lastOp.id] > 0
    /\ lastOp.id \in DOMAIN sequenceOrphans
    /\ DOMAIN sequenceOrphans[lastOp.id] # {}
    /\ DOMAIN sequenceRegistrations # {}

\* In a run of presses, the presses up to the n-th end with the keys of the
\* registration's sequence, in order.
JustTyped(reg, keys, n) ==
    LET len == Len(reg.orderedKeys)
    IN  /\ n >= len
        /\ \A i \in 1..len : normalizeKey(keys[n - len + i]) = reg.orderedKeys[i]

-----------------------------------------------------------------------------
(* The registration table against the scope-partition table                 *)

\* The scopes whose set holds id.
ScopesHolding(id) ==
    {t \in DOMAIN targetRegistrations : id \in Members(targetRegistrations[t])}

RECURSIVE SumOfSetSizes(_)
SumOfSetSizes(targets) ==
    IF targets = {} THEN 0
    ELSE LET t == CHOOSE x \in targets : TRUE
         IN  Len(targetRegistrations[t]) + SumOfSetSizes(targets \ {t})

\* C33: the registration table and the scope-partition table agree: every
\* active id is in the set of exactly one scope, its own; every id in a
\* scope's set is active and is there once; getRegistrationCount() is the sum
\* of the sizes of the scopes' sets.
C33_TablesAgree ==
    /\ \A id \in Active : ScopesHolding(id) = {registrations[id].target}
    /\ \A t \in DOMAIN targetRegistrations :
          /\ Members(targetRegistrations[t]) \subseteq Active
          /\ Cardinality(Members(targetRegistrations[t])) = Len(targetRegistrations[t])
    /\ getRegistrationCount(Mgr) = SumOfSetSizes(DOMAIN targetRegistrations)

\* An unregister has just removed a registration, and one registration, on a
\* scope other than the document, is still active.
C33_Witness ==
    /\ lastOp.op = "unregister"
    /\ lastOp.id \notin Active
    /\ \E id \in Active : registrations[id].target # "document"
    /\ getRegistrationCount(Mgr) = 1

\* C34 (as claimed): after a register with policy 'replace' returns, the new
\* registration is the only active registration with that parsed hotkey on
\* that scope, however many colliding registrations existed before the call.
C34_ReplaceLeavesOnlyTheNew ==
    [][(RegisterStep /\ AskedPolicy = "replace" /\ ~lastOp'.threw)
       => {id \in DOMAIN registrations' :
              /\ registrations'[id].parsedHotkey = AskedParsed
              /\ registrations'[id].target = AskedTarget} = {lastOp'.id}]_vars

-----------------------------------------------------------------------------
(* Unregistration against the pass that is running                          *)

\* C35: a callback is never invoked once its registration is unregistered:
\* a pass invokes only registrations that were active when it began or were
\* registered during it, and a registration that a callback of the pass
\* unregisters is not invoked later in that pass, also when the pass had not
\* yet visited it.
C35_UnregisteredNeverInvoked ==
    [][DispatchStep =>
         /\ \A p \in 1..Len(lastOp'.fired) :
                lastOp'.fired[p].id \in Active \cup lastOp'.registered
         /\ \A x \in lastOp'.removed :
                \A p \in 1..Len(lastOp'.fired) :
                    lastOp'.fired[p].id = x.registration.id => p <= x.after]_vars

\* A pass has just run in which the callback of one registration
\* unregistered another registration of the scope that the event was to fire
\* as well, and that other registration was not invoked.
C35_Witness ==
    /\ lastOp.op = "dispatch"
    /\ \E x \in lastOp.removed :
          /\ x.after >= 1
          /\ lastOp.fired[x.after].id # x.registration.id
          /\ x.registration.target = lastOp.target
          /\ FiresOn(x.registration, lastOp.event)
          /\ TimesFired(lastOp.fired, x.registration.id) = 0
          /\ x.registration.id \notin Active

\* C36 (as claimed): once every registration has been unregistered the
\* manager holds nothing: the registration table, the scope-partition table
\* and the listener table are empty and no listener is attached, with a
\* document and without one.
C36_NothingLeftAfterUnregistering ==
    (lastOp.op = "unregister" /\ Active = {}) =>
        /\ targetRegistrations = << >>
        /\ targetListeners = {}
        /\ \A t \in DomTargets : domListeners[t] = NoListeners

-----------------------------------------------------------------------------
(* Registration ids over the life of the process                            *)

\* C37: a register call is given an id that no earlier register call of the
\* process was given, on this instance or on one that has been reset since;
\* and calling the function that a register call on a since-reset instance
\* returned leaves every table of the present instance as it was.
C37_IdsUniqueAcrossResets ==
    [][/\ RegisterStep =>
             /\ lastOp'.id \notin DOMAIN handles
             /\ lastOp'.id \notin Active
             /\ DOMAIN registrations' \ Active \subseteq {lastOp'.id}
       /\ (lastOp'.op = "unregister" /\ ~handles[lastOp'.id]) => TablesUnchanged]_vars

\* The function returned by a register call on an instance that has since
\* been reset has just been called, while the present instance holds a
\* registration made after the reset.
C37_Witness ==
    /\ lastOp.op = "unregister"
    /\ ~handles[lastOp.id]
    /\ instance = "live"
    /\ \E id \in Active : id > lastOp.id /\ handles[id]

-----------------------------------------------------------------------------
(* Properties of the HotkeyRecorder                                         *)

\* The callbacks a call invoked, in order.
CallbackNames(calls) == [i \in DOMAIN calls |-> calls[i].callback]

\* The option is given, as a sequence of its name.
Given(options, name) == IF options[name] = "absent" THEN << >> ELSE <<name>>

\* None of the caller's callbacks calls back into the recorder.
Inert(options) == \A name \in DOMAIN options : options[name] \in {"none", "absent"}

Unmodified(e) == ~e.ctrlKey /\ ~e.shiftKey /\ ~e.altKey /\ ~e.metaKey

\* C32: while a recording is in progress, a press of Escape cancels it
\* (onCancel, no onRecord); an unmodified Backspace or Delete clears (onClear,
\* then onRecord with the empty hotkey); a press of a pure modifier changes
\* nothing and invokes nothing; any other press records (onRecord with the
\* hotkey pressed, which becomes recordedHotkey); each of the three, and
\* stop, cancel and destroy, ends the recording; start() changes nothing.
\* The callbacks here are ones that do not call back into the recorder.
C32_SessionRunsUntilEnded ==
    [][recorder.isRecording =>
         /\ lastOp'.op = "recorderStart" =>
               recorder' = recorder /\ lastOp'.calls = << >>
         /\ lastOp'.op = "recorderSetOptions" =>
               recorder'.isRecording /\ lastOp'.calls = << >>
         /\ (lastOp'.op = "recorderKeydown" /\ isModifierKey(lastOp'.event)) =>
               recorder' = recorder /\ lastOp'.calls = << >>
         /\ (lastOp'.op \in {"recorderStop", "recorderCancel", "recorderDestroy"}
               /\ Inert(recorder.options)) =>
               /\ ~recorder'.isRecording
               /\ recorder'.recordedHotkey = NullHotkey
               /\ CallbackNames(lastOp'.calls) =
                     IF lastOp'.op = "recorderCancel"
                     THEN Given(recorder.options, "onCancel") ELSE << >>
         /\ (lastOp'.op = "recorderKeydown" /\ ~isModifierKey(lastOp'.event)
               /\ Inert(recorder.options)) =>
               LET e == lastOp'.event
                   pressed == convertToModFormat(keyboardEventToHotkey(e),
                                                 recorder.platform)
               IN  /\ ~recorder'.isRecording
                   /\ lastOp'.handled
                   /\ IF e.key = "Escape"
                      THEN /\ CallbackNames(lastOp'.calls) =
                                 Given(recorder.options, "onCancel")
                           /\ recorder'.recordedHotkey = NullHotkey
                      ELSE IF e.key \in {"Backspace", "Delete"} /\ Unmodified(e)
                      THEN /\ CallbackNames(lastOp'.calls) =
                                 Given(recorder.options, "onClear") \o <<"onRecord">>
                           /\ lastOp'.calls[Len(lastOp'.calls)].hotkey = EmptyHotkey
                           /\ recorder'.recordedHotkey = NullHotkey
                      ELSE /\ CallbackNames(lastOp'.calls) = <<"onRecord">>
                           /\ lastOp'.calls[1].hotkey = pressed
                           /\ recorder'.recordedHotkey = pressed]_vars

\* On a Mac, Meta+S has just been pressed during a recording whose callbacks
\* do not call back: onRecord was invoked with Mod+S, which is recordedHotkey,
\* and the recording is over.
C32_Witness ==
    /\ lastOp.op = "recorderKeydown"
    /\ lastOp.event.metaKey
    /\ Inert(recorder.options)
    /\ CallbackNames(lastOp.calls) = <<"onRecord">>
    /\ lastOp.calls[1].hotkey = <<"Mod", "S">>
    /\ recorder.recordedHotkey = <<"Mod", "S">>
    /\ ~recorder.isRecording

\* C39 (as claimed): after every operation isRecording is true exactly when
\* the recorder's keydown listener is attached, and at most one listener is
\* attached, whatever the callbacks call.
C39_RecordingIffListening ==
    /\ recorder.isRecording <=> recorder.attached # {}
    /\ Cardinality(recorder.attached) <= 1

\* C39 (amended): after every operation isRecording is true exactly when the
\* recorder holds a handler; where a document exists that handler is the one
\* listener attached and nothing is attached when there is none; without a
\* document nothing is ever attached.
C39_RecordingIffHandlerHeld ==
    /\ recorder.isRecording <=> recorder.keydownHandler # 0
    /\ recorder.attached =
           IF hasDocument /\ recorder.keydownHandler # 0
           THEN {recorder.keydownHandler} ELSE {}

\* With a document, a press has just ended a recording and the onRecord
\* callback has started the next one from inside the handler: the recorder
\* is recording again with the second handler as its one listener.
C39_Witness ==
    /\ hasDocument
    /\ lastOp.op = "recorderKeydown"
    /\ recorder.options.onRecord = "start"
    /\ CallbackNames(lastOp.calls) = <<"onRecord">>
    /\ recorder.isRecording
    /\ recorder.keydownHandler = 2
    /\ recorder.attached = {2}

\* C40 (as claimed): onCancel is invoked only to end a recording that is in
\* progress, and no recording has both onRecord and onCancel invoked for it.
C40_CancelOnlyEndsARecording ==
    [][lastOp'.op \in {"recorderCancel", "recorderKeydown"} =>
         \A i \in DOMAIN lastOp'.calls :
             lastOp'.calls[i].callback = "onCancel" =>
                 /\ lastOp'.calls[i].session # 0
                 /\ \A j \in DOMAIN lastOp'.calls :
                        lastOp'.calls[j].callback = "onRecord" =>
                            lastOp'.calls[j].session # lastOp'.calls[i].session]_vars

====
